---- MODULE Spec2Model ----
(***************************************************************************)
(* Model of the MCP connector manager (backend/app/core/mcp_manager.py):   *)
(* the client registry, the tool-list cache and the agent cache of         *)
(* MCPServerManager, driven by concurrent callers on one asyncio event     *)
(* loop.  A coroutine keeps the processor until it reaches an await that   *)
(* really suspends (the descriptor query of get_agent_for_tools, or the    *)
(* acquisition of a lock that is held).  One action of the model is what   *)
(* one coroutine does between two such points: `run` takes the steps of    *)
(* the code one after the other for as long as the coroutine holds `cpu`.  *)
(***************************************************************************)
EXTENDS Integers, Sequences, FiniteSets, TLC

\* ------------------------------------------------------------------ bounds
MaxObjects == 3      \* MCPClient and Agent objects constructed in one run

ToolIds == {1, 10}
Procs == {"c1", "c2"}
NoProc == "none"

\* --------------------------------------------------------- python helpers
\* d[k] = v on a dict
Put(d, k, v) == [x \in (DOMAIN d) \cup {k} |-> IF x = k THEN v ELSE d[x]]

\* del d[k] guarded by `if k in d`
Del(d, k) == [x \in (DOMAIN d) \ {k} |-> d[x]]

EmptyDict == [x \in {} |-> 0]

\* ------------------------------------------------------------ descriptors
\* The rows the descriptor store may hold for tool t: a good one of the kind
\* the tool uses, one of an unsupported kind and, where the kind needs a
\* url, one without it. "" stands for a missing url.
Descriptor(t, kind, url) == [id |-> t, connection_type |-> kind, url |-> url]

Descriptors(t) ==
    IF t = 1
    THEN {Descriptor(t, "stdio", ""), Descriptor(t, "grpc", "")}
    ELSE IF t = 10
    THEN {Descriptor(t, "http", "http://x"), Descriptor(t, "http", "")}
    ELSE {Descriptor(t, "sse", "http://x"), Descriptor(t, "sse", "")}

NoDescriptor == [id |-> 0, connection_type |-> "", url |-> ""]

\* _create_mcp_client and its three constructors: TRUE when a client object
\* is returned, FALSE when ValueError is raised.
create_mcp_client(cfg) ==
    CASE cfg.connection_type = "stdio" -> TRUE
      [] cfg.connection_type = "http" -> cfg.url # ""
      [] cfg.connection_type = "sse" -> cfg.url # ""
      [] OTHER -> FALSE

\* ---------------------------------------------------------------- objects
\* An MCPClient instance: the tool it was built for and its allocation number.
ClientObj(t, n) == [tool_id |-> t, n |-> n]
NoClient == [tool_id |-> 0, n |-> 0]

\* A tool object; the built-in ones belong to no client.
Tool(name, c) == [name |-> name, client |-> c]
built_in_tools ==
    << Tool("calculator", NoClient), Tool("current_time", NoClient),
       Tool("http_request", NoClient) >>

\* What list_tools_sync of client c answers: one tool, or no tool.
ListOutcomes == {"tools", "empty", "raise"}
ToolList(c, kind) == IF kind = "tools" THEN << Tool("mcp", c) >> ELSE << >>

\* What the provider does during one start: does __enter__ return, and what
\* does list_tools_sync answer (nothing is listed when __enter__ raised).
Outcomes == {o \in [enter : BOOLEAN, list : ListOutcomes] : o.enter \/ o.list = "raise"}

\* An Agent instance: allocation number and its tools.
AgentObj(n, tools) == [id |-> n, tools |-> tools]
NoAgent == [id |-> 0, tools |-> << >>]

\* -------------------------------------------------------------- cache key
Digits == << "0", "1", "2", "3", "4", "5", "6", "7", "8", "9" >>

\* str(n) of a natural number, as its sequence of characters
RECURSIVE str(_)
str(n) == IF n < 10 THEN << Digits[n + 1] >>
          ELSE str(n \div 10) \o << Digits[(n % 10) + 1] >>

\* insertion of x into an ascending sequence
RECURSIVE Insert(_, _)
Insert(x, s) ==
    IF s = << >> THEN << x >>
    ELSE IF x <= Head(s) THEN << x >> \o s
    ELSE << Head(s) >> \o Insert(x, Tail(s))

\* sorted(tool_ids)
RECURSIVE sorted(_)
sorted(ids) == IF ids = << >> THEN << >> ELSE Insert(Head(ids), sorted(Tail(ids)))

\* ','.join(parts)
RECURSIVE join(_)
join(parts) ==
    IF parts = << >> THEN << >>
    ELSE IF Len(parts) = 1 THEN parts[1]
    ELSE parts[1] \o << "," >> \o join(Tail(parts))

\* key.split(',')
RECURSIVE split(_)
split(key) ==
    IF \A i \in 1..Len(key) : key[i] # "," THEN << key >>
    ELSE LET k == CHOOSE i \in 1..Len(key) :
                       key[i] = "," /\ \A j \in 1..(i - 1) : key[j] # ","
         IN << SubSeq(key, 1, k - 1) >> \o split(SubSeq(key, k + 1, Len(key)))

\* cache_key = ','.join(map(str, sorted(tool_ids)))
cache_key(ids) ==
    LET s == sorted(ids) IN join([i \in 1..Len(s) |-> str(s[i])])

\* str(tool_id) found anywhere in the key
key_has_substring(key, t) ==
    \E i \in 1..Len(key) :
        i + Len(str(t)) - 1 <= Len(key)
            /\ SubSeq(key, i, i + Len(str(t)) - 1) = str(t)

\* str(tool_id) in key.split(',')
key_has_tool(key, t) ==
    LET parts == split(key) IN \E i \in 1..Len(parts) : parts[i] = str(t)

\* ------------------------------------------------- manager state as record
\* The maps of MCPServerManager, with the two facts of the environment the
\* claims speak of: `entered`, the client objects whose __enter__ returned
\* and whose __exit__ has not been called since, and next_client, the number
\* the next constructed MCPClient gets.
is_running(m, t) == t \in DOMAIN m.clients

is_active(m, t) == t \in DOMAIN m.active_clients /\ m.active_clients[t]

client_info_of(cfg) ==
    [tool_id |-> cfg.id, connection_type |-> cfg.connection_type,
     status |-> "running", url |-> cfg.url]

\* a cleanup that forgets the client info
cleanup_clients_only(m, t) == [m EXCEPT !.clients = Del(@, t)]

\* the cleanup of a failed initialisation
cleanup_failed_init(m, t) ==
    [m EXCEPT !.clients = Del(@, t), !.client_info = Del(@, t)]

\* a start that never finds its provider running
never_running(m, t) == FALSE

\* `if tool_id in self._clients` of start_mcp_server
already_running(m, t) == t \in DOMAIN m.clients

\* The body of start_mcp_server under the lock. `o` is what the provider
\* does. Answers the new maps, the return value, the client object this call
\* constructed (NoClient if none) and why it returned.
start_mcp_server(m, cfg, o) ==
    LET t == cfg.id
        c == ClientObj(t, m.next_client)
    IN IF already_running(m, t)
       THEN [m |-> m, ret |-> FALSE, made |-> NoClient, why |-> "already_running"]
       ELSE IF ~create_mcp_client(cfg)
       THEN [m |-> m, ret |-> FALSE, made |-> NoClient, why |-> "create_failed"]
       ELSE
         LET m1 == [m EXCEPT !.clients = Put(@, t, c),
                             !.client_info = Put(@, t, client_info_of(cfg)),
                             !.next_client = @ + 1]
         IN IF ~o.enter
            THEN [m |-> cleanup_failed_init(m1, t), ret |-> FALSE, made |-> c,
                  why |-> "enter_failed"]
            ELSE
              LET m2 == [m1 EXCEPT !.entered = @ \cup {c},
                                   !.active_clients = Put(@, t, TRUE)]
              IN IF o.list = "raise"
                 THEN [m |-> cleanup_failed_init(m2, t), ret |-> FALSE, made |-> c,
                       why |-> "list_failed"]
                 ELSE [m |-> [m2 EXCEPT !.tools_cache = Put(@, t, ToolList(c, o.list))],
                       ret |-> TRUE, made |-> c, why |-> "started"]

\* the agent-cache keys stop_mcp_server removes for tool t
agents_to_remove_whole_key(cache, t) == {k \in DOMAIN cache : k = str(t)}

agents_to_remove(cache, t) == {k \in DOMAIN cache : key_has_tool(k, t)}

\* a removal that leaves the agent cache as it is
remove_keeping_agents(m, t) ==
    [m EXCEPT !.clients = Del(@, t), !.client_info = Del(@, t),
              !.active_clients = Del(@, t), !.tools_cache = Del(@, t)]

\* stop_mcp_server after the exit of the context: the id leaves the maps
\* and the agents built with it leave the cache
remove_from_tracking(m, t) ==
    LET m2 == [m EXCEPT !.clients = Del(@, t),
                        !.client_info = Del(@, t),
                        !.active_clients = Del(@, t),
                        !.tools_cache = Del(@, t)]
        gone == agents_to_remove(m2.agents_cache, t)
    IN [m2 EXCEPT !.agents_cache = [k \in (DOMAIN @) \ gone |-> @[k]]]

\* a stop that gives up when __exit__ raises
stop_mcp_server_exit_fatal(m, t, exit_ok) ==
    IF ~is_running(m, t)
    THEN [m |-> m, ret |-> FALSE]
    ELSE IF is_active(m, t) /\ ~exit_ok
    THEN [m |-> [m EXCEPT !.entered = @ \ {m.clients[t]}], ret |-> FALSE]
    ELSE [m |-> remove_from_tracking(
                    [m EXCEPT !.entered = @ \ {m.clients[t]}], t),
          ret |-> TRUE]

\* The body of stop_mcp_server under the lock. exit_ok: __exit__ returns
\* (TRUE) or raises (FALSE); either way it has been called.
stop_mcp_server(m, t, exit_ok) ==
    IF ~is_running(m, t)
    THEN [m |-> m, ret |-> FALSE]
    ELSE
      LET c == m.clients[t]
          m1 == IF is_active(m, t)
                THEN IF exit_ok
                     THEN [m EXCEPT !.entered = @ \ {c},
                                    !.active_clients = Put(@, t, FALSE)]
                     ELSE [m EXCEPT !.entered = @ \ {c}]
                ELSE m
      IN [m |-> remove_from_tracking(m1, t), ret |-> TRUE]

\* a get_tools_from_client that caches an empty list when the listing fails
get_tools_caching_failure(m, t, o) ==
    IF t \in DOMAIN m.tools_cache
    THEN [m |-> m, found |-> TRUE, tools |-> m.tools_cache[t], calls |-> << >>]
    ELSE IF ~is_running(m, t)
    THEN [m |-> m, found |-> FALSE, tools |-> << >>, calls |-> << >>]
    ELSE [m |-> [m EXCEPT !.tools_cache = Put(@, t, << >>)], found |-> FALSE,
          tools |-> << >>, calls |-> << "list_tools_sync" >>]

\* get_tools_from_client: found = FALSE is the None return; calls are the
\* calls it made to the client, in order.
get_tools_from_client(m, t, o) ==
    IF t \in DOMAIN m.tools_cache
    THEN [m |-> m, found |-> TRUE, tools |-> m.tools_cache[t], calls |-> << >>]
    ELSE IF ~is_running(m, t)
    THEN [m |-> m, found |-> FALSE, tools |-> << >>, calls |-> << >>]
    ELSE
      LET c == m.clients[t]
          enters == ~is_active(m, t)
          entry == IF enters THEN << "__enter__" >> ELSE << >>
      IN IF enters /\ ~o.enter
         THEN [m |-> m, found |-> FALSE, tools |-> << >>, calls |-> entry]
         ELSE
           LET m1 == IF enters
                     THEN [m EXCEPT !.entered = @ \cup {c},
                                    !.active_clients = Put(@, t, TRUE)]
                     ELSE m
               calls == Append(entry, "list_tools_sync")
           IN IF o.list = "raise"
              THEN [m |-> m1, found |-> FALSE, tools |-> << >>, calls |-> calls]
              ELSE [m |-> [m1 EXCEPT !.tools_cache = Put(@, t, ToolList(c, o.list))],
                    found |-> TRUE, tools |-> ToolList(c, o.list), calls |-> calls]

\* ------------------------------------------------------------ scheduling
\* an acquire that always yields to the event loop
acquire_always_suspends(lk) == TRUE

\* Does `async with self._lock` suspend the coroutine that reaches it? An
\* asyncio.Lock is taken at once when it is free; the coroutine waits, and
\* lets others run, only while the lock is held.
AcquireSuspends(lk) == lk # NoProc

\* ------------------------------------------------------------------ state
VARIABLES
    clients,         \* _clients: tool_id -> MCPClient
    client_info,     \* _client_info: tool_id -> info
    active_clients,  \* _active_clients: tool_id -> bool
    tools_cache,     \* _tools_cache: tool_id -> tools
    agents_cache,    \* _agents_cache: key -> Agent
    lock,            \* _lock: the coroutine holding it, or NoProc
    entered,         \* client objects entered and not exited since
    next_client,     \* number of the next MCPClient constructed
    next_agent,      \* number of the next Agent constructed
    cpu,             \* the coroutine running now, NoProc between two of them
    pc,              \* where each caller is
    op,              \* the public method each caller is in
    cfg,             \* tool_config (or tool_id) argument of the running call
    tool_ids,        \* get_agent_for_tools: its argument
    idx,             \* get_agent_for_tools: position of the loop in tool_ids
    all_tools,       \* get_agent_for_tools: tools collected so far
    peer,            \* what an overlapping call with the same key returned
    lastOp,          \* the call that returned last
    \* SessionManager (session_manager.py) and the sessions of AgentManager
    sessions,        \* SessionManager.sessions: session id -> session data
    session_expiry,  \* SessionManager.session_expiry: session id -> time
    expiry_time,     \* SessionManager.expiry_time
    session_data,    \* AgentManager._session_data: session id -> session
    now,             \* the clock read by time.time() and datetime.utcnow()
    next_uuid,       \* number of the next uuid4 drawn
    next_wrapper,    \* number of the next Agent made for a session
    closed_ids,      \* the session ids close_session has removed so far
    lastCall,        \* the session call that returned last
    \* AgentManager (agent_manager.py), the assistants and their configs
    am_agents,       \* AgentManager._agents: assistant id -> Agent
    am_lock,         \* AgentManager._lock: the coroutine holding it, or NoProc
    am_pc,           \* where each caller is in get_agent_for_assistant
    am_assistant,    \* get_agent_for_assistant: its assistant_id argument
    bindings,        \* the store: assistant id -> tool ids by priority
    assistant_configs, \* openai_compatible._assistant_configs
    \* the application (main.py), its background tasks and one streamed reply
    app,             \* where lifespan is: "down", "up", "closing", "closed"
    idle_task,       \* the task running cleanup_idle_agents_task
    session_task,    \* the task running cleanup_expired_sessions
    stream,          \* one generate() of a streamed chat completion
    listing,         \* one request of GET /sessions
    wrapper          \* one MCPAgentWrapper (mcp_wrapper.py)

\* the variables of MCPServerManager and of its callers
mvars == << clients, client_info, active_clients, tools_cache, agents_cache,
            lock, entered, next_client, next_agent, cpu, pc, op, cfg, tool_ids,
            idx, all_tools, peer, lastOp >>

\* the variables of the sessions
svars == << sessions, session_expiry, expiry_time, session_data, now,
            next_uuid, next_wrapper, closed_ids, lastCall >>

\* the variables of AgentManager's agents and of the assistants
avars == << am_agents, am_lock, am_pc, am_assistant, bindings, assistant_configs >>

\* the variables of the application, its tasks and the streamed reply
tvars == << app, idle_task, session_task, stream, listing, wrapper >>

vars == << mvars, svars, avars, tvars >>

\* the state as one record, for the step operators
S == [clients |-> clients, client_info |-> client_info,
      active_clients |-> active_clients, tools_cache |-> tools_cache,
      agents_cache |-> agents_cache, lock |-> lock, entered |-> entered,
      next_client |-> next_client, next_agent |-> next_agent, cpu |-> cpu,
      pc |-> pc, op |-> op, cfg |-> cfg, tool_ids |-> tool_ids, idx |-> idx,
      all_tools |-> all_tools, peer |-> peer, lastOp |-> lastOp]

\* the state s is worked out once and assigned field by field
SetM(s) ==
    \E v \in {s} :
       /\ clients' = v.clients
       /\ client_info' = v.client_info
       /\ active_clients' = v.active_clients
       /\ tools_cache' = v.tools_cache
       /\ agents_cache' = v.agents_cache
       /\ lock' = v.lock
       /\ entered' = v.entered
       /\ next_client' = v.next_client
       /\ next_agent' = v.next_agent
       /\ cpu' = v.cpu
       /\ pc' = v.pc
       /\ op' = v.op
       /\ cfg' = v.cfg
       /\ tool_ids' = v.tool_ids
       /\ idx' = v.idx
       /\ all_tools' = v.all_tools
       /\ peer' = v.peer
       /\ lastOp' = v.lastOp

\* a step of the connector manager and its callers alone
SetS(s) ==
    /\ SetM(s)
    /\ UNCHANGED svars
    /\ UNCHANGED avars
    /\ UNCHANGED tvars

\* the maps of the manager in state s, and s with the maps m
MapsOf(s) ==
    [clients |-> s.clients, client_info |-> s.client_info,
     active_clients |-> s.active_clients, tools_cache |-> s.tools_cache,
     agents_cache |-> s.agents_cache, entered |-> s.entered,
     next_client |-> s.next_client]

WithMaps(s, m) ==
    [s EXCEPT !.clients = m.clients, !.client_info = m.client_info,
              !.active_clients = m.active_clients, !.tools_cache = m.tools_cache,
              !.agents_cache = m.agents_cache, !.entered = m.entered,
              !.next_client = m.next_client]

\* the tool_ids arguments of the callers
IdLists == {<< >>, << 1 >>, << 1, 10 >>, << 10, 1 >>}

\* What the call before the last one gave, kept when it was the same method
\* on the same tool id or the same tool ids in any order.
NoPrev == [same |-> FALSE, ret |-> FALSE, why |-> "", agent |-> 0, ids |-> << >>]

\* The record of a returned call: the method, the caller, the tool id or the
\* tool_ids given, the value returned (ret, and the agent for
\* get_agent_for_tools), the return path taken (why), the client object the
\* call constructed, the number of Agent objects it constructed, the number
\* of agent-cache entries it removed, what an overlapping call with the same
\* key had returned before (peer).
NoOp ==
    [op |-> "none", proc |-> NoProc, tool_id |-> 0, ids |-> << >>, ret |-> FALSE,
     why |-> "", client |-> NoClient, agent |-> NoAgent, built |-> 0,
     evicted |-> 0, peer |-> 0, prev |-> NoPrev, assistant |-> 0]

\* two tool-id lists with the same ids, each as often
IsPermutation(a, b) ==
    /\ Len(a) = Len(b)
    /\ \A t \in ToolIds :
           Cardinality({i \in 1..Len(a) : a[i] = t})
               = Cardinality({i \in 1..Len(b) : b[i] = t})

Repeats(rec, last) ==
    /\ rec.op = last.op
    /\ rec.tool_id = last.tool_id
    /\ IsPermutation(rec.ids, last.ids)

PrevOf(rec, last) ==
    IF Repeats(rec, last)
    THEN [same |-> TRUE, ret |-> last.ret, why |-> last.why, agent |-> last.agent.id,
          ids |-> last.ids]
    ELSE NoPrev

\* ---------------------------------------------------------------- sessions
\* A session id: one given by a caller, or the n-th uuid4 drawn.
Sid(kind, n) == [kind |-> kind, n |-> n]
NoSid == Sid("none", 0)

\* the record of a session call that has not happened
NoCall ==
    [op |-> "none", sid |-> NoSid, out |-> NoSid, assistant |-> 0,
     ret |-> FALSE, count |-> 0, status |-> "", existed |-> FALSE,
     role |-> "", content |-> ""]

\* SessionManager(expiry_time) and AgentManager() after construction; the
\* idle window is one or two units of the clock.
ExpiryTimes == {1, 2}

InitSessions ==
    /\ sessions = EmptyDict
    /\ session_expiry = EmptyDict
    /\ expiry_time \in ExpiryTimes
    /\ session_data = EmptyDict
    /\ now = 0
    /\ next_uuid = 1
    /\ next_wrapper = 1
    /\ closed_ids = {}
    /\ lastCall = NoCall

\* the manager with a fixed idle window, for the runs about the connectors
InitNoSessions ==
    /\ InitSessions
    /\ expiry_time = 2

\* ------------------------------------------------------------- assistants
Assistants == {1, 2}

\* the tool ids bound to the assistants in the store at the start
NoBindings == [a \in Assistants |-> << >>]

\* what get_assistant_config keeps for an assistant: the tool ids it was
\* made from
Config(ids) == [tool_ids |-> ids]

\* AgentManager() after construction, the store with bindings b and
\* _assistant_configs holding c
InitAssistants(b, c) ==
    /\ am_agents = EmptyDict
    /\ am_lock = NoProc
    /\ am_pc = [p \in Procs |-> "none"]
    /\ am_assistant = [p \in Procs |-> 0]
    /\ bindings = b
    /\ assistant_configs = c

\* a task: where it is, whether cancel() was called on it and has not yet
\* reached it, how its last sweep ended, the number of its sweeps modulo 2,
\* and where the cancellation reached it
NoTask == [pc |-> "none", cancel |-> FALSE, last |-> "none", n |-> 0, hit |-> "none"]

\* a streamed reply that was not begun: where generate() is, the events it
\* has sent, the agent events still to come at most, whether it streams from
\* an Agent ("temporary") or from the wrapper of a session ("session"),
\* whether agent.stream_async has raised and whether the wrapper has retried,
\* the client contexts of get_agent_context ("none", "entered", "exited"),
\* and the places in the agent's reply of the events handed to generate()
NoStream ==
    [pc |-> "none", out |-> << >>, left |-> 0, kind |-> "none",
     raised |-> FALSE, retried |-> FALSE, ctx |-> "none", got |-> << >>]

\* no request of GET /sessions yet: where list_sessions is, the number of
\* entries of _session_data its iterator has passed, the size of
\* _session_data when the iteration began, the assistant_id filter (0: none)
\* and the session ids of the summaries collected
NoListing == [pc |-> "none", at |-> 0, used |-> 0, filter |-> 0, out |-> << >>]

\* no MCPAgentWrapper was constructed yet; of one: its clients, tools and
\* fields, how many times each client is entered and not exited (open), and
\* of its last call the method, whether is_initialized held when it began,
\* the __enter__ and __exit__ calls it made, the errors it logged and its
\* result
NoWrapper == [made |-> FALSE, clients |-> << >>, agent |-> FALSE,
              active_contexts |-> << >>, is_initialized |-> FALSE,
              open |-> << >>, op |-> "none", was |-> FALSE, log |-> << >>,
              errors |-> 0, ret |-> "none"]

\* before lifespan is entered: no task, no streamed reply, no listing
InitTasks ==
    /\ app = "down"
    /\ idle_task = NoTask
    /\ session_task = NoTask
    /\ stream = NoStream
    /\ listing = NoListing
    /\ wrapper = NoWrapper

\* MCPServerManager() after construction, and the callers idle
InitManager ==
    /\ clients = EmptyDict
    /\ client_info = EmptyDict
    /\ active_clients = EmptyDict
    /\ tools_cache = EmptyDict
    /\ agents_cache = EmptyDict
    /\ lock = NoProc
    /\ entered = {}
    /\ next_client = 1
    /\ next_agent = 1
    /\ cpu = NoProc
    /\ pc = [p \in Procs |-> "idle"]
    /\ op = [p \in Procs |-> "none"]
    /\ cfg = [p \in Procs |-> NoDescriptor]
    /\ tool_ids = [p \in Procs |-> << >>]
    /\ idx = [p \in Procs |-> 0]
    /\ all_tools = [p \in Procs |-> << >>]
    /\ peer = [p \in Procs |-> 0]
    /\ lastOp = NoOp

Init ==
    InitNoSessions /\ InitAssistants(NoBindings, EmptyDict) /\ InitManager /\ InitTasks

\* ------------------------------------------------------------------ steps
\* p returns from its call with record rec: its locals are gone
Return(s, p, rec) ==
    [s EXCEPT !.pc[p] = "idle", !.op[p] = "none", !.cfg[p] = NoDescriptor,
              !.tool_ids[p] = << >>, !.idx[p] = 0, !.all_tools[p] = << >>,
              !.cpu = NoProc,
              !.lastOp = [rec EXCEPT !.prev = PrevOf(rec, s.lastOp)]]

\* p reaches `async with self._lock` of start (where = "start_acquire") or
\* of stop ("stop_acquire")
ToAcquire(s, p, where) ==
    [s EXCEPT !.pc[p] = where,
              !.cpu = IF AcquireSuspends(s.lock) THEN NoProc ELSE p]

\* p takes the free lock
acquire_step(s, p) ==
    [s EXCEPT !.lock = p, !.cpu = p,
              !.pc[p] = IF s.pc[p] = "start_acquire" THEN "start_body"
                        ELSE "stop_body"]

\* a turn of the loop that collects nothing
extend_nothing(all, g) == all

\* `if tools: all_tools.extend(tools)`
extend_if_tools(all, g) ==
    IF g.found /\ g.tools # << >> THEN all \o g.tools ELSE all

\* The body of start_mcp_server and the release of the lock: for a direct
\* call and for the start of a restart, the return; for the start that
\* get_agent_for_tools makes for a provider that is not running, the fetch of
\* its tools and the next turn of the loop.
start_step(s, p, o) ==
    LET t == s.cfg[p].id
        r == start_mcp_server(MapsOf(s), s.cfg[p], o)
        g == IF r.ret THEN get_tools_from_client(r.m, t, o)
             ELSE [m |-> r.m, found |-> FALSE, tools |-> << >>]
    IN IF s.op[p] = "get_agent"
       THEN [WithMaps(s, g.m) EXCEPT
                 !.lock = NoProc,
                 !.all_tools[p] = extend_if_tools(@, g),
                 !.idx[p] = @ + 1,
                 !.cfg[p] = NoDescriptor,
                 !.pc[p] = "loop"]
       ELSE Return([WithMaps(s, r.m) EXCEPT !.lock = NoProc], p,
                   [NoOp EXCEPT !.op = s.op[p], !.proc = p, !.tool_id = t,
                                !.ret = r.ret, !.why = r.why, !.client = r.made])

\* The body of stop_mcp_server and the release of the lock: for a direct
\* call, the return; for the stop of a restart, on to its start.
stop_step(s, p, exit_ok) ==
    LET t == s.cfg[p].id
        r == stop_mcp_server(MapsOf(s), t, exit_ok)
        s1 == [WithMaps(s, r.m) EXCEPT !.lock = NoProc]
    IN IF s.op[p] = "stop"
       THEN Return(s1, p, [NoOp EXCEPT !.op = "stop", !.proc = p, !.tool_id = t,
                                       !.ret = r.ret,
                                       !.why = IF ~r.ret THEN "not_running"
                                               ELSE IF is_active(MapsOf(s), t) /\ ~exit_ok
                                               THEN "exit_raised"
                                               ELSE "stopped",
                                       !.evicted = Cardinality(DOMAIN s.agents_cache)
                                                   - Cardinality(DOMAIN r.m.agents_cache)])
       ELSE ToAcquire(s1, p, "start_acquire")

\* p returns `agent` from get_agent_for_tools(ids); every caller still inside
\* a call with the same tool ids learns what its peer was given.
AgentReturned(s, p, ids, agent, why, built) ==
    LET rec == [NoOp EXCEPT !.op = "get_agent", !.proc = p, !.ids = ids,
                            !.ret = TRUE, !.why = why, !.agent = agent,
                            !.built = built, !.peer = s.peer[p]]
        s1 == Return(s, p, rec)
    IN [s1 EXCEPT !.peer =
           [q \in Procs |->
               IF q = p THEN 0
               ELSE IF s.op[q] = "get_agent"
                       /\ IsPermutation(s.tool_ids[q], ids)
                    THEN agent.id
                    ELSE s.peer[q]]]

\* an agent with the collected tools alone
agent_without_built_ins(n, tools) == AgentObj(n, tools)

\* the agent built from the collected tools and the built-in ones
agent_with_tools(n, tools) == AgentObj(n, tools \o built_in_tools)

\* an agent with the first two built-in tools
built_ins_agent_short(n) == AgentObj(n, SubSeq(built_in_tools, 1, 2))

\* the agent of the early returns and of the exception handler
built_ins_agent(n) == AgentObj(n, built_in_tools)

\* an agent that is not stored
store_nothing(cache, key, agent) == cache

\* `self._agents_cache[cache_key] = agent`
store_agent(cache, key, agent) == Put(cache, key, agent)

\* a return of the built-ins agent that stores it under the key
no_tools_stored(s, p, ids, n) ==
    AgentReturned([s EXCEPT !.agents_cache =
                       Put(@, cache_key(ids), built_ins_agent(n))],
                  p, ids, built_ins_agent(n), "no_tools", 1)

\* `if not all_tools: return Agent(model=..., tools=built_in_tools)`
no_tools_return(s, p, ids, n) ==
    AgentReturned(s, p, ids, built_ins_agent(n), "no_tools", 1)

\* One turn of the loop over tool_ids: a running provider gives its tools;
\* for one that is not running the descriptor is queried, which suspends.
iterate_step(s, p, o) ==
    LET t == s.tool_ids[p][s.idx[p]]
        g == get_tools_from_client(MapsOf(s), t, o)
    IN IF is_running(MapsOf(s), t)
       THEN [WithMaps(s, g.m) EXCEPT !.all_tools[p] = extend_if_tools(@, g),
                                     !.idx[p] = @ + 1]
       ELSE [s EXCEPT !.pc[p] = "query", !.cpu = NoProc]

\* After the loop: no tool, so a built-ins agent that is not cached; the agent
\* built and cached; or the exception handler when Agent(...) raises.
finish_step(s, p, build_ok) ==
    LET ids == s.tool_ids[p]
        n == s.next_agent
        s1 == [s EXCEPT !.next_agent = n + 1]
    IN IF s.all_tools[p] = << >>
       THEN no_tools_return(s1, p, ids, n)
       ELSE IF build_ok
       THEN LET agent == agent_with_tools(n, s.all_tools[p])
            IN AgentReturned(
                   [s1 EXCEPT !.agents_cache = store_agent(@, cache_key(ids), agent)],
                   p, ids, agent, "built", 1)
       ELSE AgentReturned(s1, p, ids, built_ins_agent(n), "fallback", 1)

\* get_agent_for_tools up to its loop: the empty list, the cache lookup
get_agent_entry(s, p, ids) ==
    IF ids = << >>
    THEN AgentReturned([s EXCEPT !.next_agent = @ + 1], p, ids,
                       built_ins_agent(s.next_agent), "empty", 1)
    ELSE IF cache_key(ids) \in DOMAIN s.agents_cache
    THEN AgentReturned(s, p, ids, s.agents_cache[cache_key(ids)], "hit", 0)
    ELSE [s EXCEPT !.op[p] = "get_agent", !.tool_ids[p] = ids, !.idx[p] = 1,
                   !.all_tools[p] = << >>, !.pc[p] = "loop", !.cpu = p]

\* the next step of the running coroutine p
step(s, p, in) ==
    CASE s.pc[p] \in {"start_acquire", "stop_acquire"} -> acquire_step(s, p)
      [] s.pc[p] = "start_body" -> start_step(s, p, in.o)
      [] s.pc[p] = "stop_body" -> stop_step(s, p, in.exit_ok)
      [] s.pc[p] = "loop" /\ s.idx[p] <= Len(s.tool_ids[p]) -> iterate_step(s, p, in.o)
      [] s.pc[p] = "loop" /\ s.idx[p] > Len(s.tool_ids[p]) -> finish_step(s, p, in.build_ok)

\* p runs until it suspends or returns (each state on the way is worked out
\* once: the set binds it as a value)
RECURSIVE run(_, _, _)
run(s, p, in) ==
    CHOOSE r \in {IF v.cpu # p THEN v ELSE run(step(v, p, in), p, in) : v \in {s}} : TRUE

\* the bounds on the objects constructed
WithinBounds(s) == (s.next_client - 1) + (s.next_agent - 1) <= MaxObjects

Go(s, p, in) ==
    \E s1 \in {run(s, p, in)} : WithinBounds(s1) /\ SetS(s1)

\* ---------------------------------------------------------------- actions
\* The environment's part in an action that needs only some of it.
In(o, exit_ok, build_ok) == [o |-> o, exit_ok |-> exit_ok, build_ok |-> build_ok]

StartCall(p, c, o) ==
    /\ pc[p] = "idle" /\ cpu = NoProc
    /\ Go(ToAcquire([S EXCEPT !.op[p] = "start", !.cfg[p] = c], p, "start_acquire"),
          p, In(o, TRUE, TRUE))

StopCall(p, t, exit_ok) ==
    /\ pc[p] = "idle" /\ cpu = NoProc
    /\ Go(ToAcquire([S EXCEPT !.op[p] = "stop",
                              !.cfg[p] = [NoDescriptor EXCEPT !.id = t]],
                    p, "stop_acquire"),
          p, In(CHOOSE o \in Outcomes : TRUE, exit_ok, TRUE))

\* a restart that starts without stopping
RestartWithoutStop(p, c, o, exit_ok) ==
    /\ pc[p] = "idle" /\ cpu = NoProc
    /\ Go(ToAcquire([S EXCEPT !.op[p] = "restart", !.cfg[p] = c], p,
                    "start_acquire"),
          p, In(o, exit_ok, TRUE))

\* restart_mcp_server: the running check is made outside the lock
RestartCall(p, c, o, exit_ok) ==
    /\ pc[p] = "idle" /\ cpu = NoProc
    /\ Go(ToAcquire([S EXCEPT !.op[p] = "restart", !.cfg[p] = c], p,
                    IF is_running(MapsOf(S), c.id) THEN "stop_acquire"
                    ELSE "start_acquire"),
          p, In(o, exit_ok, TRUE))

GetAgentCall(p, ids, o, build_ok) ==
    /\ pc[p] = "idle" /\ cpu = NoProc
    /\ Go(get_agent_entry(S, p, ids), p, In(o, TRUE, build_ok))

\* The event loop resumes the suspended p. From the descriptor query, with
\* the answer of MCPToolQueries.get_tool_by_id: no descriptor, or descriptor
\* d, with which the provider is started. From the wait for the lock, once
\* the lock is free.
CanResume(p, d, exit_ok) ==
    /\ pc[p] \in {"query", "start_acquire", "stop_acquire"} /\ cpu = NoProc
    /\ IF pc[p] = "query"
       THEN exit_ok
       ELSE d = NoDescriptor /\ lock = NoProc

\* the state in which the resumed p goes on
resumed(p, d) ==
    IF pc[p] = "query"
    THEN IF d = NoDescriptor
         THEN [S EXCEPT !.idx[p] = @ + 1, !.pc[p] = "loop", !.cpu = p]
         ELSE ToAcquire([S EXCEPT !.cfg[p] = d], p, "start_acquire")
    ELSE [S EXCEPT !.cpu = p]

Resume(p, d, o, exit_ok, build_ok) ==
    /\ CanResume(p, d, exit_ok)
    /\ Go(resumed(p, d), p, In(o, exit_ok, build_ok))

\* ------------------------------------------------------------------- spec
\* What __exit__ may do matters to a stop of a provider that is running, and
\* what the provider may do matters to a call that starts or fetches: where
\* nothing reads the choice, one value stands for all.
ExitOutcomes(t) == IF t \in DOMAIN clients THEN BOOLEAN ELSE {TRUE}

\* what the descriptor store may answer to the query p is suspended at
QueryAnswers(p) ==
    IF pc[p] = "query"
    THEN Descriptors(tool_ids[p][idx[p]]) \cup {NoDescriptor}
    ELSE {NoDescriptor}

FetchOutcomes ==
    IF DOMAIN clients \subseteq DOMAIN tools_cache
    THEN {[enter |-> TRUE, list |-> "tools"]}
    ELSE Outcomes

\* the calls of the callers P on the tools T with tool-id lists L
NextOf(P, T, L) ==
    \/ \E p \in P, t \in T, o \in Outcomes :
          \E c \in Descriptors(t) : StartCall(p, c, o)
    \/ \E p \in P, t \in T : \E x \in ExitOutcomes(t) : StopCall(p, t, x)
    \/ \E p \in P, t \in T, o \in Outcomes :
          \E c \in Descriptors(t), x \in ExitOutcomes(t) : RestartCall(p, c, o, x)
    \/ \E p \in P, ids \in L, o \in FetchOutcomes, b \in BOOLEAN :
          GetAgentCall(p, ids, o, b)
    \/ \E p \in P, o \in Outcomes, x \in BOOLEAN, b \in BOOLEAN :
          \E d \in QueryAnswers(p) : Resume(p, d, o, x, b)

\* one caller: the calls follow one another
Next == NextOf({"c1"}, ToolIds, IdLists)

Spec == Init /\ [][Next]_vars

\* two callers on one provider
NextConc == NextOf(Procs, {1}, {<< >>, << 1 >>})

SpecConc == Init /\ [][NextConc]_vars

\* ----------------------------------------------------------------- claims
\* the maps of the manager now
MapsNow == MapsOf(S)

\* the tool-id lists in which t occurs
ListsWith(t) == {ids \in IdLists : \E i \in 1..Len(ids) : ids[i] = t}

\* A step in which a call returns: lastOp' is the record of the call of a
\* caller that is idle after the step, and that either was inside the call
\* before or made the whole call in this step (no caller moved otherwise).
ReturnStep ==
    /\ lastOp'.proc \in Procs
    /\ pc'[lastOp'.proc] = "idle"
    /\ \/ pc[lastOp'.proc] # "idle"
       \/ pc' = pc /\ idx' = idx

\* C1: a start_mcp_server for an id whose previous start returned true (no
\* stop in between) returns false and changes nothing: the maps are the same
\* and the client registered for the id is the one the first start made.
C1_SecondStartRejected ==
    [][(lastOp.op = "start" /\ lastOp.ret /\ ReturnStep
           /\ lastOp'.op = "start" /\ lastOp'.tool_id = lastOp.tool_id)
       => /\ ~lastOp'.ret
          /\ UNCHANGED << clients, client_info, active_clients, tools_cache,
                          agents_cache, entered, next_client >>
          /\ is_running(MapsNow', lastOp.tool_id)
          /\ clients'[lastOp.tool_id] = lastOp.client]_vars

C1_Witness ==
    /\ lastOp.op = "start" /\ ~lastOp.ret /\ lastOp.why = "already_running"
    /\ lastOp.prev.same /\ lastOp.prev.ret
    /\ lastOp.tool_id \in DOMAIN clients

\* C2: when stop_mcp_server(id) returns true, the id is not running, its
\* tools are gone (get_tools_from_client gives None), it is not active, and
\* the agent cache holds no key made from a tool-id list that contains id,
\* that is no key with str(id) among its comma-separated components.
C2_StopRemovesEverything ==
    [][(ReturnStep /\ lastOp'.op = "stop" /\ lastOp'.ret)
       => LET t == lastOp'.tool_id
          IN /\ ~is_running(MapsNow', t)
             /\ ~is_active(MapsNow', t)
             /\ \A o \in Outcomes : ~get_tools_from_client(MapsNow', t, o).found
             /\ t \notin DOMAIN tools_cache'
             /\ \A ids \in ListsWith(t) : cache_key(ids) \notin DOMAIN agents_cache'
             /\ \A k \in DOMAIN agents_cache' : ~key_has_tool(k, t)]_vars

C2_Witness ==
    /\ lastOp.op = "stop" /\ lastOp.ret /\ lastOp.evicted > 0
    /\ lastOp.tool_id \notin DOMAIN clients
    /\ clients # EmptyDict

\* C3: a start_mcp_server that returns false because the client could not be
\* made, entered, or listed leaves no trace of the id: not running, not
\* active, no client info, no cached tools, and no context left entered.
C3_FailedStartLeavesNothing ==
    [][(ReturnStep /\ lastOp'.op = "start" /\ ~lastOp'.ret
           /\ lastOp'.why \in {"create_failed", "enter_failed", "list_failed"})
       => LET t == lastOp'.tool_id
          IN /\ ~is_running(MapsNow', t)
             /\ ~is_active(MapsNow', t)
             /\ t \notin DOMAIN client_info'
             /\ t \notin DOMAIN tools_cache'
             /\ \A e \in entered' : e.tool_id # t]_vars

\* C4: between two calls, a tool id is registered as running exactly when a
\* client made for it has been entered and not exited.
C4_RunningIffEntered ==
    \A t \in ToolIds :
        t \in DOMAIN clients <=> \E e \in entered : e.tool_id = t

\* the names of the tools of an agent
ToolNames(agent) == {agent.tools[i].name : i \in 1..Len(agent.tools)}

BuiltInNames == {"calculator", "current_time", "http_request"}

\* C5: when a call of get_agent_for_tools ran while another call with the
\* same tool ids returned an agent that is in the cache, it returns that
\* same agent and builds none: the callers share one instance built once.
C5_ConcurrentCallsShareAgent ==
    (/\ lastOp.op = "get_agent" /\ lastOp.peer # 0
     /\ \E k \in DOMAIN agents_cache : agents_cache[k].id = lastOp.peer)
    => (lastOp.agent.id = lastOp.peer /\ lastOp.built = 0)

\* C6: start, stop and restart are never seen half-way by another caller, so
\* nothing takes effect between the running check, the stop and the start of
\* a restart: a restart never finds its provider started by someone else,
\* and one whose start succeeds returns true with the client it has just
\* made registered and entered.
C6_RestartIsExclusive ==
    [][/\ \A p \in Procs : op'[p] \notin {"start", "stop", "restart"}
       /\ lock' = NoProc
       /\ (ReturnStep /\ lastOp'.op = "restart")
          => /\ lastOp'.why # "already_running"
             /\ lastOp'.why = "started"
                => /\ lastOp'.ret
                   /\ lastOp'.client.n >= next_client
                   /\ lastOp'.tool_id \in DOMAIN clients'
                   /\ clients'[lastOp'.tool_id] = lastOp'.client
                   /\ lastOp'.client \in entered']_vars

C6_Witness ==
    /\ lastOp.op = "restart" /\ lastOp.ret /\ lastOp.client.n > 1
    /\ lastOp.tool_id \in DOMAIN clients
    /\ clients[lastOp.tool_id] = lastOp.client
    /\ \E q \in Procs : q # lastOp.proc /\ pc[q] = "query"

C9_EmptyListGivesBuiltIns ==
    [][(ReturnStep /\ lastOp'.op = "get_agent" /\ lastOp'.ids = << >>)
       => /\ Len(lastOp'.agent.tools) = 3
          /\ ToolNames(lastOp'.agent) = BuiltInNames
          /\ \A i \in 1..Len(lastOp'.agent.tools) :
                 lastOp'.agent.tools[i].client = NoClient
          /\ UNCHANGED << clients, client_info, active_clients, tools_cache,
                          entered, next_client >>]_vars

C9_Witness ==
    /\ lastOp.op = "get_agent" /\ lastOp.ids = << >> /\ lastOp.why = "empty"
    /\ lastOp.agent.tools = built_in_tools
    /\ clients # EmptyDict

\* C10: every agent get_agent_for_tools returns, and every agent in the
\* cache, has the three built-in tools among its tools.
C10_AgentsHaveBuiltIns ==
    /\ lastOp.op = "get_agent" => BuiltInNames \subseteq ToolNames(lastOp.agent)
    /\ \A k \in DOMAIN agents_cache :
           BuiltInNames \subseteq ToolNames(agents_cache[k])

C10_Witness ==
    /\ lastOp.op = "get_agent" /\ lastOp.why = "built"
    /\ Len(lastOp.agent.tools) > 3
    /\ BuiltInNames \subseteq ToolNames(lastOp.agent)

\* the tools of an agent that come from a provider
ExternalTools(agent) ==
    SelectSeq(agent.tools, LAMBDA tl : tl.client # NoClient)

\* the cached tool lists of the providers listed in ids, in that order
RECURSIVE ToolsOfListed(_, _)
ToolsOfListed(ids, cache) ==
    IF ids = << >> THEN << >>
    ELSE (IF Head(ids) \in DOMAIN cache THEN cache[Head(ids)] ELSE << >>)
         \o ToolsOfListed(Tail(ids), cache)

\* the elements of a sequence
Range(q) == {q[i] : i \in 1..Len(q)}

EvictIds == {1, 10, 11}

\* the lists in the order their agents were built
EvictOrder ==
    << << 1 >>, << 10 >>, << 11 >>, << 1, 10 >>, << 1, 11 >>, << 10, 11 >>,
       << 1, 10, 11 >> >>

EvictLists == {EvictOrder[n] : n \in 1..Len(EvictOrder)}

\* the client that runs for t, the tools it listed and the agent built for ids
EvictClient(t) == ClientObj(t, IF t = 1 THEN 1 ELSE IF t = 10 THEN 2 ELSE 3)

EvictTools == [t \in EvictIds |-> ToolList(EvictClient(t), "tools")]

EvictAgent(ids) ==
    agent_with_tools(CHOOSE n \in 1..Len(EvictOrder) : EvictOrder[n] = ids,
                     ToolsOfListed(ids, EvictTools))

InitEvict ==
    /\ InitNoSessions
    /\ InitAssistants(NoBindings, EmptyDict)
    /\ InitTasks
    /\ clients = [t \in EvictIds |-> EvictClient(t)]
    /\ client_info =
           [t \in EvictIds |-> client_info_of(CHOOSE c \in Descriptors(t) :
                                                  create_mcp_client(c))]
    /\ active_clients = [t \in EvictIds |-> TRUE]
    /\ tools_cache = EvictTools
    /\ \E L \in SUBSET EvictLists :
           agents_cache = [k \in {cache_key(ids) : ids \in L} |->
                              EvictAgent(CHOOSE ids \in L : cache_key(ids) = k)]
    /\ lock = NoProc
    /\ entered = {EvictClient(t) : t \in EvictIds}
    /\ next_client = 4
    /\ next_agent = 8
    /\ cpu = NoProc
    /\ pc = [p \in Procs |-> "idle"]
    /\ op = [p \in Procs |-> "none"]
    /\ cfg = [p \in Procs |-> NoDescriptor]
    /\ tool_ids = [p \in Procs |-> << >>]
    /\ idx = [p \in Procs |-> 0]
    /\ all_tools = [p \in Procs |-> << >>]
    /\ peer = [p \in Procs |-> 0]
    /\ lastOp = NoOp

\* stop_mcp_server(t), which constructs no object
StopRunning(p, t, exit_ok) ==
    /\ pc[p] = "idle" /\ cpu = NoProc
    /\ SetS(run(ToAcquire([S EXCEPT !.op[p] = "stop",
                                    !.cfg[p] = [NoDescriptor EXCEPT !.id = t]],
                          p, "stop_acquire"),
                p, In(CHOOSE o \in Outcomes : TRUE, exit_ok, TRUE)))

NextEvict == \E t \in EvictIds, x \in BOOLEAN : StopRunning("c1", t, x)

SpecEvict == InitEvict /\ [][NextEvict]_vars

\* the characters of the keys of the adjacent ids
Key_1_10 == << "1", ",", "1", "0" >>
Key_10 == << "1", "0" >>
Key_11 == << "1", "1" >>
Key_10_11 == << "1", "0", ",", "1", "1" >>

\* C12: stop_mcp_server(t) removes a cached key exactly when t is one of the
\* ids the key was made from, and leaves the other entries as they were;
\* stopping 1 removes "1,10" and leaves "10", "11" and "10,11".
C12_EvictsExactComponents ==
    [][(ReturnStep /\ lastOp'.op = "stop" /\ lastOp'.ret)
       => LET t == lastOp'.tool_id
          IN /\ \A ids \in EvictLists :
                    cache_key(ids) \in DOMAIN agents_cache
                    => (cache_key(ids) \in DOMAIN agents_cache'
                           <=> t \notin Range(ids))
             /\ DOMAIN agents_cache' \subseteq DOMAIN agents_cache
             /\ \A k \in DOMAIN agents_cache' : agents_cache'[k] = agents_cache[k]
             /\ t = 1
                => /\ Key_1_10 \notin DOMAIN agents_cache'
                   /\ \A k \in {Key_10, Key_11, Key_10_11} :
                          k \in DOMAIN agents_cache => k \in DOMAIN agents_cache']_vars

C12_Witness ==
    /\ lastOp.op = "stop" /\ lastOp.ret /\ lastOp.tool_id = 1
    /\ lastOp.evicted = 4
    /\ DOMAIN agents_cache = {Key_10, Key_11, Key_10_11}
    /\ DOMAIN clients = {10, 11}

\* C13: stop_mcp_server(id) on a running provider returns true and removes
\* the id from the client registry, the client info, the active map and the
\* tool cache, also when __exit__ raises; on a provider that is not running
\* it returns false and changes nothing.
C13_StopBestEffort ==
    [][(ReturnStep /\ lastOp'.op = "stop")
       => LET t == lastOp'.tool_id
          IN IF t \in DOMAIN clients
             THEN /\ lastOp'.ret
                  /\ t \notin DOMAIN clients'
                  /\ t \notin DOMAIN client_info'
                  /\ t \notin DOMAIN active_clients'
                  /\ t \notin DOMAIN tools_cache'
             ELSE /\ ~lastOp'.ret
                  /\ UNCHANGED << clients, client_info, active_clients,
                                  tools_cache, agents_cache, entered,
                                  next_client, next_agent, lock >>]_vars

C13_Witness ==
    /\ lastOp.op = "stop" /\ lastOp.ret /\ lastOp.why = "exit_raised"
    /\ lastOp.tool_id \notin DOMAIN clients
    /\ lastOp.tool_id \notin DOMAIN active_clients

\* C14: restart_mcp_server is a stop of the provider if it runs, then a
\* start: when the start succeeds it returns true and the registered client
\* is the one just made, another instance than the one registered before,
\* and the agents cached with the old one are gone; when the start fails it
\* returns false and the provider is not running.
C14_RestartStopsThenStarts ==
    [][(ReturnStep /\ lastOp'.op = "restart")
       => LET t == lastOp'.tool_id
          IN /\ lastOp'.ret <=> lastOp'.why = "started"
             /\ lastOp'.ret
                => /\ t \in DOMAIN clients' /\ clients'[t] = lastOp'.client
                   /\ lastOp'.client.n = next_client
                   /\ t \in DOMAIN clients => clients'[t] # clients[t]
                   /\ lastOp'.client \in entered'
             /\ ~lastOp'.ret => t \notin DOMAIN clients'
             /\ t \in DOMAIN clients
                => \A ids \in ListsWith(t) :
                       cache_key(ids) \notin DOMAIN agents_cache']_vars

C14_Witness ==
    /\ lastOp.op = "restart" /\ lastOp.ret
    /\ lastOp.prev.same /\ lastOp.prev.ret
    /\ lastOp.client.n = 2
    /\ clients[lastOp.tool_id] = lastOp.client

\* ------------------------------------------------------- session manager
MaxTime == 2         \* readings of the clock
MaxCreated == 2      \* sessions created in one run

\* the session ids a caller may give: one of its own, or a uuid it was given
GivenIds == {Sid("given", 1)} \cup {Sid("uuid", n) : n \in 1..(next_uuid - 1)}

\* The two maps of SessionManager as a record ss (sessions, session_expiry).
SessionMaps == [sessions |-> sessions, session_expiry |-> session_expiry]

\* a close_session that forgets the expiry entry
close_session_keeps_expiry(ss, sid) ==
    IF sid \in DOMAIN ss.sessions
    THEN [ret |-> TRUE,
          ss |-> [sessions |-> Del(ss.sessions, sid),
                  session_expiry |-> ss.session_expiry]]
    ELSE [ret |-> FALSE, ss |-> ss]

\* close_session: the value returned and the maps afterwards
close_session(ss, sid) ==
    IF sid \in DOMAIN ss.sessions
    THEN [ret |-> TRUE,
          ss |-> [sessions |-> Del(ss.sessions, sid),
                  session_expiry |-> Del(ss.session_expiry, sid)]]
    ELSE [ret |-> FALSE, ss |-> ss]

\* create_session(session_id, assistant_id, ...) at time t with idle window
\* T; w is the Agent it makes. A session under the same id is closed first.
create_session(ss, sid, a, t, T, w) ==
    LET ss1 == IF sid \in DOMAIN ss.sessions THEN close_session(ss, sid).ss
               ELSE ss
    IN [sessions |-> Put(ss1.sessions, sid,
                         [assistant_id |-> a, agent |-> w, created_at |-> t,
                          last_used_at |-> t]),
        session_expiry |-> Put(ss1.session_expiry, sid, t + T)]

\* a get_session that leaves the expiry as it was
get_session_no_slide(ss, sid, t, T) ==
    IF sid \in DOMAIN ss.sessions
    THEN [found |-> TRUE,
          ss |-> [ss EXCEPT !.sessions[sid].last_used_at = t]]
    ELSE [found |-> FALSE, ss |-> ss]

\* get_session: found = FALSE is the None return
get_session(ss, sid, t, T) ==
    IF sid \in DOMAIN ss.sessions
    THEN [found |-> TRUE,
          ss |-> [ss EXCEPT !.session_expiry[sid] = t + T,
                            !.sessions[sid].last_used_at = t]]
    ELSE [found |-> FALSE, ss |-> ss]

\* sessions that count as expired from their expiry on
expired_from_expiry(exp, t) == {sid \in DOMAIN exp : t >= exp[sid]}

\* cleanup_expired_sessions: `if current_time > expiry_time`
expired_sessions(exp, t) == {sid \in DOMAIN exp : t > exp[sid]}

\* cleanup_expired_sessions: every expired session is closed
cleanup_expired_sessions(ss, t) ==
    LET gone == expired_sessions(ss.session_expiry, t)
    IN [count |-> Cardinality(gone),
        ss |-> [sessions |-> [sid \in (DOMAIN ss.sessions) \ gone |->
                                  ss.sessions[sid]],
                session_expiry |-> [sid \in (DOMAIN ss.session_expiry) \ gone |->
                                        ss.session_expiry[sid]]]]

\* get_assistant_config: the cached config, or the exception of the call of
\* mcp_manager.create_agent_with_tools, a method MCPServerManager does not
\* have; a config is stored only after that call, so none is ever stored.
get_assistant_config(a) ==
    IF a \in DOMAIN assistant_configs
    THEN [ok |-> TRUE, config |-> assistant_configs[a]]
    ELSE [ok |-> FALSE, config |-> << >>]

\* the session maps and the rest of the state after a session call; the ids
\* removed by close_session are those that are gone and those that
\* create_session has closed and made again, with a new Agent
SetSessionVars(ss, call) ==
    /\ sessions' = ss.sessions
    /\ session_expiry' = ss.session_expiry
    /\ lastCall' = call
    /\ closed_ids' = closed_ids \cup ((DOMAIN sessions) \ DOMAIN ss.sessions)
                      \cup {sid \in (DOMAIN sessions) \cap DOMAIN ss.sessions :
                               ss.sessions[sid].agent # sessions[sid].agent}
    /\ UNCHANGED << expiry_time, session_data, now >>

\* a session call: nothing else changes
SetSessions(ss, call) ==
    /\ SetSessionVars(ss, call)
    /\ UNCHANGED mvars
    /\ UNCHANGED avars
    /\ UNCHANGED tvars

\* the clock advances
Tick ==
    /\ now < MaxTime
    /\ now' = now + 1
    /\ UNCHANGED << sessions, session_expiry, expiry_time, session_data,
                    next_uuid, next_wrapper, closed_ids, lastCall >>
    /\ UNCHANGED mvars
    /\ UNCHANGED avars
    /\ UNCHANGED tvars

\* session_manager.create_session(None or an id, assistant, ...)
CreateSession(sid, a) ==
    /\ next_wrapper <= MaxCreated
    /\ LET id == IF sid = NoSid THEN Sid("uuid", next_uuid) ELSE sid
       IN /\ SetSessions(create_session(SessionMaps, id, a, now, expiry_time,
                                        next_wrapper),
                         [NoCall EXCEPT !.op = "create", !.sid = sid, !.out = id,
                                        !.assistant = a, !.ret = TRUE,
                                        !.existed = id \in DOMAIN sessions])
          /\ next_uuid' = IF sid = NoSid THEN next_uuid + 1 ELSE next_uuid
          /\ next_wrapper' = next_wrapper + 1

GetSession(sid) ==
    /\ LET g == get_session(SessionMaps, sid, now, expiry_time)
       IN SetSessions(g.ss, [NoCall EXCEPT !.op = "get", !.sid = sid,
                                            !.ret = g.found, !.existed = g.found])
    /\ UNCHANGED << next_uuid, next_wrapper >>

CloseSession(sid) ==
    /\ LET c == close_session(SessionMaps, sid)
       IN SetSessions(c.ss, [NoCall EXCEPT !.op = "close", !.sid = sid,
                                            !.ret = c.ret,
                                            !.existed = sid \in DOMAIN sessions])
    /\ UNCHANGED << next_uuid, next_wrapper >>

\* one round of the background task cleanup_expired_sessions
Cleanup ==
    /\ LET c == cleanup_expired_sessions(SessionMaps, now)
       IN SetSessions(c.ss, [NoCall EXCEPT !.op = "cleanup", !.ret = TRUE,
                                            !.count = c.count])
    /\ UNCHANGED << next_uuid, next_wrapper >>

\* create_chat_completion for assistant a with the Session-ID header sid
\* (NoSid: no header), from the session handling on. status is "ok" when a
\* completion is returned, "error" when the request ends in an exception.
Chat(sid, a) ==
    LET g == get_session(SessionMaps, sid, now, expiry_time)
        matches == g.found /\ g.ss.sessions[sid].assistant_id = a
        closed == IF g.found THEN close_session(g.ss, sid).ss ELSE g.ss
        config == get_assistant_config(a)
        call == [NoCall EXCEPT !.op = "chat", !.sid = sid, !.assistant = a,
                               !.existed = g.found]
    IN IF sid = NoSid
       THEN \* fallback_to_temporary_context: the config is needed
            /\ SetSessions(SessionMaps,
                           [call EXCEPT !.status = IF config.ok THEN "ok" ELSE "error",
                                        !.ret = config.ok])
            /\ UNCHANGED << next_uuid, next_wrapper >>
       ELSE IF matches
       THEN \* session['wrapper']: create_session stores no such key
            /\ SetSessions(g.ss, [call EXCEPT !.status = "error"])
            /\ UNCHANGED << next_uuid, next_wrapper >>
       ELSE IF ~config.ok
       THEN /\ SetSessions(closed, [call EXCEPT !.status = "error"])
            /\ UNCHANGED << next_uuid, next_wrapper >>
       ELSE /\ next_wrapper <= MaxCreated
            /\ SetSessions(create_session(closed, sid, a, now, expiry_time,
                                          next_wrapper),
                           [call EXCEPT !.status = "ok", !.ret = TRUE, !.out = sid])
            /\ next_wrapper' = next_wrapper + 1
            /\ UNCHANGED next_uuid

NextSessions ==
    \/ Tick
    \/ \E sid \in GivenIds \cup {NoSid}, a \in Assistants : CreateSession(sid, a)
    \/ \E sid \in GivenIds : GetSession(sid)
    \/ \E sid \in GivenIds : CloseSession(sid)
    \/ Cleanup

\* construction with any of the idle windows
InitAnyExpiry ==
    InitSessions /\ InitAssistants(NoBindings, EmptyDict) /\ InitManager /\ InitTasks

\* the calls of the methods of SessionManager, in any order
SpecSessions == InitAnyExpiry /\ [][NextSessions]_vars

NextChat ==
    \/ Tick
    \/ \E sid \in GivenIds \cup {NoSid}, a \in Assistants : CreateSession(sid, a)
    \/ \E sid \in GivenIds \cup {NoSid}, a \in Assistants : Chat(sid, a)

\* chat requests against a session manager that holds sessions
SpecChat == Init /\ [][NextChat]_vars

\* ------------------------------------------------------- claims on sessions
\* a step that is a call of the session operation op (the clock stands still
\* during a call)
SessionCall(name) == now' = now /\ lastCall'.op = name

\* C15: a session last accessed within the idle window (expiry_time) is kept,
\* unchanged, by cleanup_expired_sessions, and get_session on a session makes
\* the time of the call its last access; a session whose last access is older
\* than the idle window is removed by the next cleanup_expired_sessions.
C15_SlidingExpiry ==
    [][/\ SessionCall("get") /\ lastCall'.ret
          => /\ lastCall'.sid \in DOMAIN sessions'
             /\ sessions'[lastCall'.sid].last_used_at = now
       /\ SessionCall("cleanup")
          => \A sid \in DOMAIN sessions :
                IF now - sessions[sid].last_used_at <= expiry_time
                THEN /\ sid \in DOMAIN sessions'
                     /\ sessions'[sid] = sessions[sid]
                ELSE sid \notin DOMAIN sessions']_vars

\* a cleanup has kept a session that get_session refreshed: counted from its
\* creation it would have expired
C15_Witness ==
    /\ lastCall.op = "cleanup"
    /\ \E sid \in DOMAIN sessions :
          /\ sessions[sid].created_at + expiry_time < now
          /\ sessions[sid].last_used_at + expiry_time >= now

\* C16: cleanup_expired_sessions at time now removes exactly the sessions whose
\* expiry, which is their last access plus the idle timeout, is strictly
\* before now, leaves every other session as it was, and returns the number of
\* sessions it removed.
C16_CleanupExact ==
    [][SessionCall("cleanup")
       => /\ \A sid \in DOMAIN sessions :
                session_expiry[sid] = sessions[sid].last_used_at + expiry_time
          /\ DOMAIN sessions' = {sid \in DOMAIN sessions : ~(session_expiry[sid] < now)}
          /\ DOMAIN session_expiry' = DOMAIN sessions'
          /\ \A sid \in DOMAIN sessions' :
                /\ sessions'[sid] = sessions[sid]
                /\ session_expiry'[sid] = session_expiry[sid]
          /\ lastCall'.count = Cardinality((DOMAIN sessions) \ DOMAIN sessions')]_vars

\* a cleanup has removed a session and kept one whose expiry is the time of
\* the cleanup
C16_Witness ==
    /\ lastCall.op = "cleanup"
    /\ lastCall.count > 0
    /\ \E sid \in DOMAIN sessions : session_expiry[sid] = now

\* C17: a chat request that supplies the id of a session bound to another
\* assistant than the one it asks for closes that session and is served by a
\* new session, bound to the requested assistant, whose id differs from the
\* supplied one.
C17_MismatchMakesNewSession ==
    [][(/\ SessionCall("chat")
        /\ lastCall'.sid \in DOMAIN sessions
        /\ sessions[lastCall'.sid].assistant_id # lastCall'.assistant)
       => /\ lastCall'.status = "ok"
          /\ lastCall'.out # lastCall'.sid
          /\ lastCall'.sid \notin DOMAIN sessions'
          /\ lastCall'.out \in DOMAIN sessions'
          /\ sessions'[lastCall'.out].assistant_id = lastCall'.assistant]_vars

\* C18: a chat request that supplies the id of a session bound to the
\* requested assistant reuses that session: it completes without error, the
\* session id returned is the supplied one, and the session is still there
\* with the creation time and the agent it had.
C18_MatchingSessionReused ==
    [][(/\ SessionCall("chat")
        /\ lastCall'.sid \in DOMAIN sessions
        /\ sessions[lastCall'.sid].assistant_id = lastCall'.assistant)
       => /\ lastCall'.status = "ok"
          /\ lastCall'.out = lastCall'.sid
          /\ lastCall'.sid \in DOMAIN sessions'
          /\ sessions'[lastCall'.sid].created_at = sessions[lastCall'.sid].created_at
          /\ sessions'[lastCall'.sid].agent = sessions[lastCall'.sid].agent]_vars

MaxMessages == 2     \* messages added in one run

\* role and content of the messages added
Messages == {<< "user", "hello" >>, << "assistant", "hi" >>}

\* a create_session that keeps the new session only
agent_create_only(sd, sid, a, t) ==
    Put(EmptyDict, sid, [assistant_id |-> a, created_at |-> t, last_used |-> t,
                         messages |-> << >>])

\* AgentManager.create_session: a new entry of _session_data under sid
agent_create_session(sd, sid, a, t) ==
    Put(sd, sid, [assistant_id |-> a, created_at |-> t, last_used |-> t,
                  messages |-> << >>])

\* AgentManager.get_session: found = FALSE is the None return
agent_get_session(sd, sid, t) ==
    IF sid \in DOMAIN sd
    THEN [found |-> TRUE, sd |-> [sd EXCEPT ![sid].last_used = t]]
    ELSE [found |-> FALSE, sd |-> sd]

\* an add_message_to_session that puts the entry first
add_message_first(sd, sid, role, content, t) ==
    LET g == agent_get_session(sd, sid, t)
    IN IF ~g.found
       THEN [ret |-> FALSE, sd |-> sd]
       ELSE [ret |-> TRUE,
             sd |-> [g.sd EXCEPT ![sid].messages =
                        << [role |-> role, content |-> content, timestamp |-> t] >>
                        \o @]]

\* AgentManager.add_message_to_session
add_message_to_session(sd, sid, role, content, t) ==
    LET g == agent_get_session(sd, sid, t)
    IN IF ~g.found
       THEN [ret |-> FALSE, sd |-> sd]
       ELSE [ret |-> TRUE,
             sd |-> [g.sd EXCEPT ![sid].messages =
                        Append(@, [role |-> role, content |-> content,
                                   timestamp |-> t])]]

\* number of the messages of all sessions
RECURSIVE MessageCount(_, _)
MessageCount(sd, ids) ==
    IF ids = {} THEN 0
    ELSE LET sid == CHOOSE x \in ids : TRUE
         IN Len(sd[sid].messages) + MessageCount(sd, ids \ {sid})

\* _session_data and the rest of the state after a call of AgentManager
SetSessionData(sd, call) ==
    /\ session_data' = sd
    /\ lastCall' = call
    /\ UNCHANGED << sessions, session_expiry, expiry_time, now, next_wrapper,
                    closed_ids >>
    /\ UNCHANGED mvars
    /\ UNCHANGED avars
    /\ UNCHANGED tvars

\* agent_manager.create_session(assistant_id, user_id)
AgentCreateSession(a) ==
    /\ next_uuid <= MaxCreated
    /\ SetSessionData(agent_create_session(session_data, Sid("uuid", next_uuid),
                                           a, now),
                      [NoCall EXCEPT !.op = "create", !.assistant = a,
                                     !.out = Sid("uuid", next_uuid), !.ret = TRUE])
    /\ next_uuid' = next_uuid + 1

\* agent_manager.add_message_to_session(session_id, role, content)
AddMessage(sid, role, content) ==
    /\ MessageCount(session_data, DOMAIN session_data) < MaxMessages
    /\ LET r == add_message_to_session(session_data, sid, role, content, now)
       IN SetSessionData(r.sd, [NoCall EXCEPT !.op = "add", !.sid = sid,
                                              !.ret = r.ret, !.role = role,
                                              !.content = content])
    /\ UNCHANGED next_uuid

NextMessages ==
    \/ Tick
    \/ \E a \in Assistants : AgentCreateSession(a)
    \/ \E sid \in GivenIds, m \in Messages : AddMessage(sid, m[1], m[2])

\* the calls of the session methods of AgentManager, in any order
SpecMessages == Init /\ [][NextMessages]_vars

\* the message log of sid is as it was, or as it was with entries after it
LogExtended(sid) ==
    /\ Len(session_data'[sid].messages) >= Len(session_data[sid].messages)
    /\ SubSeq(session_data'[sid].messages, 1, Len(session_data[sid].messages))
           = session_data[sid].messages

\* C20: add_message_to_session on an unknown session id returns false and
\* changes nothing; on an existing session it returns true, appends exactly
\* one entry with the given role and content at the end of that session's
\* message log, leaves the earlier entries and the other sessions as they
\* were, and makes the time of the call the session's last-used time; no call
\* removes or reorders entries of a log.
C20_AddMessageAppends ==
    [][/\ SessionCall("add")
          => IF lastCall'.sid \notin DOMAIN session_data
             THEN ~lastCall'.ret /\ session_data' = session_data
             ELSE LET sid == lastCall'.sid
                      old == session_data[sid]
                      new == session_data'[sid]
                  IN /\ lastCall'.ret
                     /\ DOMAIN session_data' = DOMAIN session_data
                     /\ Len(new.messages) = Len(old.messages) + 1
                     /\ LogExtended(sid)
                     /\ new.messages[Len(new.messages)].role = lastCall'.role
                     /\ new.messages[Len(new.messages)].content = lastCall'.content
                     /\ new.last_used = now
                     /\ new.assistant_id = old.assistant_id
                     /\ new.created_at = old.created_at
                     /\ \A other \in DOMAIN session_data \ {sid} :
                           session_data'[other] = session_data[other]
       /\ \A sid \in DOMAIN session_data :
             sid \in DOMAIN session_data' /\ LogExtended(sid)]_vars

\* a second, different message has been added to a session, later than the
\* session was made, and another session has an empty log
C20_Witness ==
    /\ lastCall.op = "add"
    /\ lastCall.ret
    /\ Len(session_data[lastCall.sid].messages) = 2
    /\ session_data[lastCall.sid].messages[1].role # lastCall.role
    /\ session_data[lastCall.sid].last_used > session_data[lastCall.sid].created_at
    /\ \E other \in DOMAIN session_data : session_data[other].messages = << >>

\* ------------------------------------------------ fetching a client's tools
\* get_tools_from_client as a function of the maps: for each tool id no
\* client, a client that is registered, one whose context is entered, or one
\* whose tools are cached. The public methods register a client and cache its
\* tools in one step, so the middle two are the states the method provides
\* for, not states start_mcp_server leaves behind.
FetchConditions == {"absent", "registered", "entered", "cached"}

FetchClient(t) == ClientObj(t, IF t = 1 THEN 1 ELSE 2)

InitFetch ==
    /\ InitNoSessions
    /\ InitAssistants(NoBindings, EmptyDict)
    /\ InitTasks
    /\ \E cond \in [ToolIds -> FetchConditions] :
          LET known == {t \in ToolIds : cond[t] # "absent"}
              active == {t \in ToolIds : cond[t] \in {"entered", "cached"}}
              cached == {t \in ToolIds : cond[t] = "cached"}
          IN /\ clients = [t \in known |-> FetchClient(t)]
             /\ client_info =
                    [t \in known |-> client_info_of(CHOOSE c \in Descriptors(t) :
                                                        create_mcp_client(c))]
             /\ active_clients = [t \in active |-> TRUE]
             /\ tools_cache = [t \in cached |-> ToolList(FetchClient(t), "tools")]
             /\ entered = {FetchClient(t) : t \in active}
    /\ agents_cache = EmptyDict
    /\ lock = NoProc
    /\ next_client = Cardinality(ToolIds) + 1
    /\ next_agent = 1
    /\ cpu = NoProc
    /\ pc = [p \in Procs |-> "idle"]
    /\ op = [p \in Procs |-> "none"]
    /\ cfg = [p \in Procs |-> NoDescriptor]
    /\ tool_ids = [p \in Procs |-> << >>]
    /\ idx = [p \in Procs |-> 0]
    /\ all_tools = [p \in Procs |-> << >>]
    /\ peer = [p \in Procs |-> 0]
    /\ lastOp = NoOp

\* the return path of get_tools_from_client with result r
FetchPath(r) ==
    IF r.calls = << >>
    THEN IF r.found THEN "cached" ELSE "no_client"
    ELSE IF r.found THEN "fetched" ELSE "fetch_failed"

\* get_tools_from_client(t); it awaits nothing, so it is one step
FetchCall(p, t, o) ==
    /\ pc[p] = "idle" /\ cpu = NoProc
    /\ LET r == get_tools_from_client(MapsOf(S), t, o)
       IN SetS(WithMaps([S EXCEPT !.lastOp =
                            [NoOp EXCEPT !.op = "get_tools", !.proc = p,
                                         !.tool_id = t, !.ret = r.found,
                                         !.why = FetchPath(r)]],
                        r.m))

\* fetches, and stops between them
NextFetch ==
    \/ \E t \in ToolIds, o \in Outcomes : FetchCall("c1", t, o)
    \/ \E t \in ToolIds, x \in BOOLEAN : StopRunning("c1", t, x)

SpecFetch == InitFetch /\ [][NextFetch]_vars

\* C21: get_tools_from_client(t) returns the cached list when one is cached
\* and calls nothing; returns None, changing nothing, when t has no client;
\* and when it fetches and the fetch fails it returns None, caches nothing
\* and has called __enter__ and list_tools_sync at most once each, the failed
\* call being the last: there is one attempt and no retry.
C21_FetchOnceOrNone ==
    [][\A t \in ToolIds, o \in Outcomes :
          FetchCall("c1", t, o)
          => LET r == get_tools_from_client(MapsNow, t, o)
             IN /\ t \in DOMAIN tools_cache
                   => /\ lastOp'.ret /\ r.tools = tools_cache[t]
                      /\ r.calls = << >> /\ MapsNow' = MapsNow
                /\ (t \notin DOMAIN tools_cache /\ t \notin DOMAIN clients)
                   => ~lastOp'.ret /\ r.calls = << >> /\ MapsNow' = MapsNow
                /\ (r.calls # << >> /\ (~o.enter \/ o.list = "raise"))
                   => /\ ~lastOp'.ret
                      /\ tools_cache' = tools_cache
                      /\ r.calls \in {<< "__enter__" >>, << "list_tools_sync" >>,
                                      << "__enter__", "list_tools_sync" >>}
                      /\ clients' = clients
                /\ lastOp'.ret
                   => t \in DOMAIN tools_cache' /\ r.tools = tools_cache'[t]]_vars

\* a fetch was attempted on a registered client and failed: nothing is cached
C21_Witness ==
    /\ lastOp.op = "get_tools"
    /\ lastOp.why = "fetch_failed"
    /\ ~lastOp.ret
    /\ lastOp.tool_id \in DOMAIN clients
    /\ lastOp.tool_id \notin DOMAIN tools_cache

\* C22: when Agent(...) raises while get_agent_for_tools builds the agent from
\* the collected tools, the caller is told of the failure, no agent is
\* returned, and nothing is stored under the key of the tool ids.
C22_BuildFailurePropagates ==
    [][(ReturnStep /\ lastOp'.op = "get_agent" /\ lastOp'.why = "fallback")
       => /\ ~lastOp'.ret
          /\ lastOp'.agent = NoAgent
          /\ cache_key(lastOp'.ids) \notin DOMAIN agents_cache']_vars

\* ------------------------------------------- the agents of the assistants
\* AgentManager.get_agent_for_assistant holds AgentManager._lock from its
\* first line to its return, across its queries of the store and across
\* mcp_manager.get_agent_for_tools. Its two queries of the store are one
\* suspension here: the tool ids are those bound when the caller is resumed.

\* the tool-id lists an assistant may be bound to
BindingLists == {<< >>, << 1 >>, << 10 >>, << 1, 10 >>, << 10, 1 >>}

\* a lock that stays with p when p leaves `async with`
am_keep(p) == p

\* the end of `async with self._lock`: the lock of AgentManager is free
am_release(p) == NoProc

\* the record of a returned get_agent_for_assistant
AmRecord(p, a, ids, agent, ret, why, built) ==
    [NoOp EXCEPT !.op = "for_assistant", !.proc = p, !.assistant = a,
                 !.ids = ids, !.agent = agent, !.ret = ret, !.why = why,
                 !.built = built]

\* `self._agents[assistant_id] = agent`
store_for_assistant(agents, a, agent) == Put(agents, a, agent)

\* p, holding the lock of AgentManager, goes on after get_agent_for_tools ran
\* to state s1: if that call has returned the agent is stored and the lock
\* released, otherwise p is suspended inside it.
AmAfter(s0, p, a) ==
    \E s1 \in {s0} :
       /\ WithinBounds(s1)
       /\ IF s1.pc[p] = "idle"
          THEN /\ SetM([s1 EXCEPT !.lastOp =
                           AmRecord(p, a, s1.lastOp.ids, s1.lastOp.agent, TRUE,
                                    "am_stored", s1.lastOp.built)])
               /\ am_agents' = store_for_assistant(am_agents, a, s1.lastOp.agent)
               /\ am_lock' = am_release(p)
               /\ am_pc' = [am_pc EXCEPT ![p] = "none"]
               /\ am_assistant' = [am_assistant EXCEPT ![p] = 0]
          ELSE /\ SetM(s1)
               /\ am_pc' = [am_pc EXCEPT ![p] = "am_inner"]
               /\ am_lock' = p
               /\ am_assistant' = [am_assistant EXCEPT ![p] = a]
               /\ UNCHANGED am_agents
       /\ UNCHANGED << bindings, assistant_configs >>
       /\ UNCHANGED svars
       /\ UNCHANGED tvars

\* p has the lock of AgentManager: the cached agent, or the query of the store
AmBody(p, a) ==
    /\ IF a \in DOMAIN am_agents
       THEN /\ SetM([S EXCEPT !.pc[p] = "idle",
                              !.lastOp = AmRecord(p, a, << >>, am_agents[a], TRUE,
                                                  "am_hit", 0)])
            /\ am_lock' = am_release(p)
            /\ am_pc' = [am_pc EXCEPT ![p] = "none"]
            /\ am_assistant' = [am_assistant EXCEPT ![p] = 0]
       ELSE /\ SetM([S EXCEPT !.pc[p] = "assistant"])
            /\ am_lock' = p
            /\ am_pc' = [am_pc EXCEPT ![p] = "am_query"]
            /\ am_assistant' = [am_assistant EXCEPT ![p] = a]
    /\ UNCHANGED << am_agents, bindings, assistant_configs >>
    /\ UNCHANGED svars
    /\ UNCHANGED tvars

\* agent_manager.get_agent_for_assistant(a)
GetForAssistantCall(p, a) ==
    /\ pc[p] = "idle" /\ cpu = NoProc
    /\ IF AcquireSuspends(am_lock)
       THEN /\ SetM([S EXCEPT !.pc[p] = "assistant"])
            /\ am_pc' = [am_pc EXCEPT ![p] = "am_acquire"]
            /\ am_assistant' = [am_assistant EXCEPT ![p] = a]
            /\ UNCHANGED << am_agents, am_lock, bindings, assistant_configs >>
            /\ UNCHANGED svars
            /\ UNCHANGED tvars
       ELSE AmBody(p, a)

\* The event loop resumes p in get_agent_for_assistant: from the wait for the
\* lock once it is free; from the query of the store with no assistant (None
\* is returned) or with its tool ids, with which get_agent_for_tools is called.
AmResume(p, o, build_ok) ==
    /\ pc[p] = "assistant" /\ cpu = NoProc
    /\ IF am_pc[p] = "am_acquire"
       THEN am_lock = NoProc /\ AmBody(p, am_assistant[p])
       ELSE LET a == am_assistant[p]
            IN IF a \notin DOMAIN bindings
               THEN /\ SetM([S EXCEPT !.pc[p] = "idle",
                                      !.lastOp = AmRecord(p, a, << >>, NoAgent, FALSE,
                                                          "am_not_found", 0)])
                    /\ am_lock' = am_release(p)
                    /\ am_pc' = [am_pc EXCEPT ![p] = "none"]
                    /\ am_assistant' = [am_assistant EXCEPT ![p] = 0]
                    /\ UNCHANGED << am_agents, bindings, assistant_configs >>
                    /\ UNCHANGED svars
                    /\ UNCHANGED tvars
               ELSE AmAfter(run(get_agent_entry([S EXCEPT !.pc[p] = "idle"], p,
                                                bindings[a]),
                                p, In(o, TRUE, build_ok)),
                            p, a)

\* Resume for a caller that may be inside get_agent_for_assistant
ResumeAny(p, d, o, exit_ok, build_ok) ==
    /\ CanResume(p, d, exit_ok)
    /\ IF am_pc[p] = "am_inner"
       THEN AmAfter(run(resumed(p, d), p, In(o, exit_ok, build_ok)), p,
                    am_assistant[p])
       ELSE Go(resumed(p, d), p, In(o, exit_ok, build_ok))

\* ---------------------------------------------- changes to the assistants
\* refresh_assistant_agent(a): the config of a is dropped
refresh_assistant_agent(configs, a) == Del(configs, a)

\* a clear_all_assistant_configs that counts after it has cleared
clear_then_count(configs) == [configs |-> EmptyDict, count |-> 0]

\* clear_all_assistant_configs: the configs afterwards and the count returned
clear_all_assistant_configs(configs) ==
    [configs |-> EmptyDict, count |-> Cardinality(DOMAIN configs)]

\* list ids with t put at position i
InsertAt(ids, i, t) == SubSeq(ids, 1, i - 1) \o << t >> \o SubSeq(ids, i, Len(ids))

\* list ids without t
Without(ids, t) ==
    LET keep == {i \in 1..Len(ids) : ids[i] # t}
        RECURSIVE pick(_)
        pick(i) == IF i > Len(ids) THEN << >>
                   ELSE IF i \in keep THEN << ids[i] >> \o pick(i + 1)
                   ELSE pick(i + 1)
    IN pick(1)

\* One of the endpoints of assistants.py that change assistant a has run:
\* the store holds the bindings b, and refresh_assistant_agent(a) was called.
Mutated(a, kind, b) ==
    /\ cpu = NoProc
    /\ a \in DOMAIN bindings
    /\ bindings' = b
    /\ assistant_configs' = refresh_assistant_agent(assistant_configs, a)
    /\ SetM([S EXCEPT !.lastOp = [NoOp EXCEPT !.op = "mutate", !.assistant = a,
                                              !.why = kind, !.ret = TRUE]])
    /\ UNCHANGED << am_agents, am_lock, am_pc, am_assistant >>
    /\ UNCHANGED svars
    /\ UNCHANGED tvars

\* PUT /assistants/{a} with tool_ids
UpdateAssistant(a, ids) == Mutated(a, "update", Put(bindings, a, ids))

\* DELETE /assistants/{a}
DeleteAssistant(a) == Mutated(a, "delete", Del(bindings, a))

\* POST /assistants/{a}/tools/{t}: t gets a place by its priority
AddTool(a, t, i) ==
    /\ a \in DOMAIN bindings
    /\ t \notin Range(bindings[a])
    /\ i \in 1..(Len(bindings[a]) + 1)
    /\ Mutated(a, "add_tool", Put(bindings, a, InsertAt(bindings[a], i, t)))

\* DELETE /assistants/{a}/tools/{t}
RemoveTool(a, t) ==
    /\ a \in DOMAIN bindings
    /\ t \in Range(bindings[a])
    /\ Mutated(a, "remove_tool", Put(bindings, a, Without(bindings[a], t)))

\* PUT /assistants/{a}/tools/{t}/priority: t gets the place of its priority
ChangePriority(a, t, i) ==
    /\ a \in DOMAIN bindings
    /\ t \in Range(bindings[a])
    /\ i \in 1..Len(bindings[a])
    /\ Mutated(a, "priority", Put(bindings, a, InsertAt(Without(bindings[a], t), i, t)))

\* any of the five changes of assistant a
Mutation(a) ==
    \/ \E ids \in BindingLists : UpdateAssistant(a, ids)
    \/ DeleteAssistant(a)
    \/ \E t \in ToolIds, i \in 1..Cardinality(ToolIds) : AddTool(a, t, i)
    \/ \E t \in ToolIds : RemoveTool(a, t)
    \/ \E t \in ToolIds, i \in 1..Cardinality(ToolIds) : ChangePriority(a, t, i)

\* clear_all_assistant_configs()
ClearAllConfigs ==
    /\ cpu = NoProc
    /\ LET r == clear_all_assistant_configs(assistant_configs)
       IN /\ assistant_configs' = r.configs
          /\ SetM([S EXCEPT !.lastOp = [NoOp EXCEPT !.op = "clear_configs",
                                                    !.ret = TRUE,
                                                    !.evicted = r.count]])
    /\ UNCHANGED << am_agents, am_lock, am_pc, am_assistant, bindings >>
    /\ UNCHANGED svars
    /\ UNCHANGED tvars

\* the bindings of the store at the start: assistant 1 uses provider 1,
\* assistant 2 the providers 1 and 10
FirstBindings == [a \in Assistants |-> IF a = 1 THEN << 1 >> ELSE << 1, 10 >>]

\* AgentManager empty; _assistant_configs holds configs of some assistants
InitWithConfigs ==
    /\ InitNoSessions
    /\ InitManager
    /\ InitTasks
    /\ \E A \in SUBSET Assistants :
          InitAssistants(FirstBindings, [a \in A |-> Config(FirstBindings[a])])

\* what the providers do when all goes well
GoodOutcome == [enter |-> TRUE, list |-> "tools"]

\* the requests of caller p for the agents of the assistants A, the
\* providers doing one of O
AgentRequests(p, A, O) ==
    \/ \E a \in A : GetForAssistantCall(p, a)
    \/ \E o \in O, b \in BOOLEAN : AmResume(p, o, b)
    \/ \E o \in O, b \in BOOLEAN :
          \E d \in QueryAnswers(p) : ResumeAny(p, d, o, TRUE, b)

\* one caller: requests for the agents of assistants and changes to assistants
NextAssistants ==
    \/ AgentRequests("c1", Assistants, {GoodOutcome})
    \/ \E a \in Assistants : Mutation(a)
    \/ ClearAllConfigs

SpecAssistants == InitWithConfigs /\ [][NextAssistants]_vars

\* the bindings stay as they are
InitBound ==
    InitNoSessions /\ InitManager /\ InitAssistants(FirstBindings, EmptyDict) /\ InitTasks

\* one caller: requests for the agents of assistants, stops of providers
NextStale ==
    \/ AgentRequests("c1", Assistants, Outcomes)
    \/ \E t \in ToolIds : \E x \in ExitOutcomes(t) : StopCall("c1", t, x)

SpecStale == InitBound /\ [][NextStale]_vars

\* the entry of dict d under key k: a one-element list, empty when absent
Entry(d, k) == IF k \in DOMAIN d THEN << d[k] >> ELSE << >>

\* C23: when a change of assistant a (update, delete, add tool, remove tool,
\* change priority) has completed, neither a cached config nor a cached agent
\* of a remains, and the cached entries of every other assistant are as they
\* were.
C23_MutationInvalidates ==
    [][\A a \in Assistants :
          Mutation(a) =>
             /\ a \notin DOMAIN assistant_configs'
             /\ a \notin DOMAIN am_agents'
             /\ \A b \in Assistants \ {a} :
                   /\ Entry(assistant_configs', b) = Entry(assistant_configs, b)
                   /\ Entry(am_agents', b) = Entry(am_agents, b)]_vars

\* C24: clear_all_assistant_configs leaves no cached config and returns the
\* number of configs that were cached when it was called.
C24_ClearAllCounts ==
    [][ClearAllConfigs =>
          /\ assistant_configs' = EmptyDict
          /\ lastOp'.evicted = Cardinality(DOMAIN assistant_configs)]_vars

\* two configs were cached, the call returned 2 and none is cached
C24_Witness ==
    /\ lastOp.op = "clear_configs"
    /\ lastOp.evicted = Cardinality(Assistants)
    /\ assistant_configs = EmptyDict

\* the clients the external tools of an agent are bound to
ClientsOf(agent) == {agent.tools[i].client : i \in 1..Len(agent.tools)} \ {NoClient}

\* C28: once stop_mcp_server(id) has returned true, no agent cached for an
\* assistant that was built with the client stopped is served any more: the
\* agent get_agent_for_assistant returns is bound to registered clients only.
C28_NoAgentOfStoppedClient ==
    [][(ReturnStep /\ lastOp'.op = "for_assistant" /\ lastOp'.ret)
       => \A c \in ClientsOf(lastOp'.agent) :
             /\ c.tool_id \in DOMAIN clients'
             /\ clients'[c.tool_id] = c]_vars

\* ------------------------------------------------------ concurrent calls
\* Two callers issue start, stop, restart, get_agent_for_tools and
\* get_agent_for_assistant as they like. Every call in flight will still
\* construct an Agent, so a step is taken only if the objects constructed so
\* far and one object for each call in flight are within the bounds: a call
\* that was begun can always be finished.
InFlight == {p \in Procs : pc[p] # "idle"}

Fits == (next_client - 1) + (next_agent - 1) + Cardinality(InFlight) <= MaxObjects

\* the tool-id lists of the concurrent get_agent_for_tools calls
LiveLists == {<< >>, << 1 >>}

\* what the providers do in the concurrent calls: all goes well, or
\* __enter__ raises
LiveOutcomes == {GoodOutcome, [enter |-> FALSE, list |-> "raise"]}

\* what the store answers in the concurrent calls: no row, or the good one
\* of the tool
LiveDescriptor(t) == CHOOSE d \in Descriptors(t) : create_mcp_client(d)

LiveAnswers(p) ==
    IF pc[p] = "query"
    THEN {NoDescriptor, LiveDescriptor(tool_ids[p][idx[p]])}
    ELSE {NoDescriptor}

\* the assistant both callers ask for
LiveAssistants == {1}

\* caller p begins a call
Begin(p) ==
    /\ pc[p] = "idle"
    /\ \/ \E o \in LiveOutcomes : StartCall(p, LiveDescriptor(1), o)
       \/ \E x \in ExitOutcomes(1) : StopCall(p, 1, x)
       \/ \E o \in LiveOutcomes : \E x \in ExitOutcomes(1) :
             RestartCall(p, LiveDescriptor(1), o, x)
       \/ \E ids \in LiveLists, o \in LiveOutcomes, b \in BOOLEAN :
             GetAgentCall(p, ids, o, b)
       \/ \E a \in LiveAssistants : GetForAssistantCall(p, a)
    /\ Fits'

\* the event loop resumes caller p: the lock it waits for is free, or the
\* store has answered
Proceed(p) ==
    /\ pc[p] # "idle"
    /\ \/ \E o \in LiveOutcomes, b \in BOOLEAN : AmResume(p, o, b)
       \/ \E o \in LiveOutcomes, b \in BOOLEAN :
             \E d \in LiveAnswers(p) : ResumeAny(p, d, o, TRUE, b)
    /\ Fits'

NextLive ==
    \/ \E p \in Procs : Begin(p)
    \/ \E p \in Procs : Proceed(p)

\* every store query returns and every task that can run is run
Fairness == \A p \in Procs : WF_vars(Proceed(p))

SpecLive == InitBound /\ [][NextLive]_vars /\ Fairness

\* C26: concurrently issued start, stop, restart, get_agent_for_tools and
\* get_agent_for_assistant calls never deadlock: provided the store answers
\* and tasks that can run are run, every call that was begun returns, and the
\* locks it took are free again.
C26_EveryCallReturns ==
    /\ \A p \in Procs : (pc[p] # "idle") ~> (pc[p] = "idle" /\ am_lock # p /\ lock # p)
    /\ (am_lock # NoProc) ~> (am_lock = NoProc)

\* one caller holds the lock of AgentManager inside get_agent_for_tools,
\* waiting for the store, and the other waits for that lock
C26_Witness ==
    \E p \in Procs, q \in Procs :
       /\ p # q
       /\ am_lock = p /\ am_pc[p] = "am_inner" /\ pc[p] = "query"
       /\ am_pc[q] = "am_acquire"

\* ------------------------------------------------------- streamed replies
\* generate() of stream_chat_completion and of
\* stream_chat_completion_with_session, one step for each event it sends or
\* each thing the agent's stream does.
MaxChunks == 3       \* events one agent stream yields

StreamKinds == {"temporary", "session"}

\* what one event of the agent's stream carries
AgentEvents == {"data", "nodata"}

SetStream(st) ==
    /\ stream' = st
    /\ UNCHANGED << app, idle_task, session_task, listing, wrapper >>
    /\ UNCHANGED << mvars, svars, avars >>

\* the handler of generate(): one error event, and the generator returns
error_event(st) == [st EXCEPT !.out = Append(@, "error"), !.pc = "closed"]

\* fallback_to_temporary_context for a streamed request, get_assistant_config
\* having returned a config: get_agent_context enters the contexts of the
\* clients and yields the Agent
EnterTemporary ==
    /\ stream.pc = "none"
    /\ SetStream([NoStream EXCEPT !.pc = "in_context", !.kind = "temporary",
                                  !.ctx = "entered"])

\* `return await stream_chat_completion(...)` inside the `async with`:
\* StreamingResponse(generate()) is made, generate() not yet begun, and the
\* return leaves the `async with`, whose `finally` exits every context
ReturnResponse ==
    /\ stream.pc = "in_context"
    /\ SetStream([stream EXCEPT !.pc = "returned", !.ctx = "exited"])

\* generate() is started, by the framework that sends the response the
\* endpoint has returned, and sends the chunk with the role
StreamStart(kind) ==
    /\ stream.pc = IF kind = "temporary" THEN "returned" ELSE "none"
    /\ stream.kind = IF kind = "temporary" THEN "temporary" ELSE "none"
    /\ SetStream([stream EXCEPT !.pc = "streaming", !.out = << "role" >>,
                                !.left = MaxChunks, !.kind = kind])

\* MCPAgentWrapper.stream_async finds the wrapper not initialized and
\* initialize() fails: RuntimeError before the agent is asked
StreamInitFails ==
    /\ stream.pc = "streaming" /\ stream.kind = "session"
    /\ stream.out = << "role" >> /\ stream.left = MaxChunks /\ ~stream.retried
    /\ SetStream(error_event(stream))

\* the agent's stream yields an event: one with data is sent as a content
\* chunk
StreamData(ev) ==
    /\ stream.pc = "streaming" /\ stream.left > 0
    /\ SetStream([stream EXCEPT !.left = @ - 1,
                                !.got = Append(@, MaxChunks - stream.left + 1),
                                !.out = IF ev = "data" THEN Append(@, "content")
                                        ELSE @])

\* the agent's stream raises. From an Agent the exception reaches the handler
\* of generate(). From a wrapper the first exception is caught by the
\* wrapper, which cleans up, initializes again and, if that worked, iterates
\* a new agent.stream_async(prompt) from its start; a failed initialize() and
\* an exception of the second stream reach the handler of generate().
StreamRaise(reinit_ok) ==
    /\ stream.pc = "streaming"
    /\ LET st == [stream EXCEPT !.raised = TRUE]
       IN IF stream.kind = "session" /\ ~stream.retried /\ reinit_ok
          THEN SetStream([st EXCEPT !.retried = TRUE, !.left = MaxChunks])
          ELSE SetStream(error_event(st))

\* the agent's stream ends: the chunk with finish_reason "stop"
StreamEnd ==
    /\ stream.pc = "streaming"
    /\ SetStream([stream EXCEPT !.out = Append(@, "stop"), !.pc = "stopped"])

\* `yield "data: [DONE]\n\n"`
StreamDone ==
    /\ stream.pc = "stopped"
    /\ SetStream([stream EXCEPT !.out = Append(@, "done"), !.pc = "closed"])

NextStream ==
    \/ EnterTemporary
    \/ ReturnResponse
    \/ \E kind \in StreamKinds : StreamStart(kind)
    \/ StreamInitFails
    \/ \E ev \in AgentEvents : StreamData(ev)
    \/ \E ok \in BOOLEAN : StreamRaise(ok)
    \/ StreamEnd
    \/ StreamDone

SpecStream == Init /\ [][NextStream]_vars

\* the events of out are, in this order: the role chunk, content chunks, and
\* then either the stop chunk and [DONE] or one error event; or a beginning
\* of such a sequence
InOrder(out) ==
    \A i \in 1..Len(out) :
       /\ (out[i] = "role") = (i = 1)
       /\ out[i] = "content" => \A j \in 2..i : out[j] = "content"
       /\ out[i] = "stop" => \A j \in 2..(i - 1) : out[j] = "content"
       /\ out[i] = "done" => i > 2 /\ out[i - 1] = "stop"
       /\ out[i] = "error" => i = Len(out) /\ \A j \in 2..(i - 1) : out[j] = "content"

idle_in_try(at) == at = "lock_wait"

\* a handler that catches whatever is raised
catches_everything(exc) == TRUE

\* `except Exception`: asyncio.CancelledError derives from BaseException
caught_by_handler(exc) == exc = "Exception"

\* a loop that returns when its sweep has raised
ends_when_raised(outcome) == IF outcome = "raised" THEN "ended" ELSE "sleep"

\* cleanup_idle_agents_task after a sweep: the exception was logged inside
\* `while True`, asyncio.sleep(300) comes next either way
idle_after(outcome) == "sleep"

\* cleanup_expired_sessions (the task) after a sweep: the exception was
\* logged inside `while True`, the next round begins with asyncio.sleep(60)
session_after(outcome) == "sleep"

\* lifespan's `except asyncio.CancelledError: pass` around `await cleanup_task`
lifespan_swallows(exc) == exc = "CancelledError"

\* how a sweep ends
SweepOutcomes == {"ok", "raised"}

\* the event loop runs while the application is up or closing
LoopRuns == app \in {"up", "closing"}

\* lifespan up to `yield`: the store is connected and the idle-agent task is
\* created; no other task is created
Startup ==
    /\ app = "down"
    /\ app' = "up"
    /\ idle_task' = [NoTask EXCEPT !.pc = "run"]
    /\ UNCHANGED << session_task, stream, listing, wrapper >>
    /\ UNCHANGED << mvars, svars, avars >>

\* lifespan after `yield`: cleanup_task.cancel(), then `await cleanup_task`
Shutdown ==
    /\ app = "up"
    /\ app' = "closing"
    /\ idle_task' = [idle_task EXCEPT !.cancel = TRUE]
    /\ UNCHANGED << session_task, stream, listing, wrapper >>
    /\ UNCHANGED << mvars, svars, avars >>

\* the idle-agent task finds AgentManager's lock taken and waits for it
IdleWaits ==
    /\ LoopRuns /\ idle_task.pc = "run" /\ ~idle_task.cancel
    /\ am_lock # NoProc
    /\ idle_task' = [idle_task EXCEPT !.pc = "lock_wait"]
    /\ UNCHANGED << app, session_task, stream, listing, wrapper >>
    /\ UNCHANGED << mvars, svars, avars >>

\* one sweep of the idle-agent task, the lock being free: cleanup_idle_agents
\* removes the agents R that were idle for too long, or raises; then the
\* handler and what follows it
IdleSweep(outcome, R) ==
    /\ LoopRuns /\ idle_task.pc \in {"run", "lock_wait"} /\ ~idle_task.cancel
    /\ am_lock = NoProc
    /\ am_agents' = IF outcome = "ok"
                    THEN [a \in (DOMAIN am_agents) \ R |-> am_agents[a]]
                    ELSE am_agents
    /\ idle_task' = [idle_task EXCEPT !.pc = idle_after(outcome),
                                      !.last = outcome, !.n = 1 - @]
    /\ UNCHANGED << am_lock, am_pc, am_assistant, bindings, assistant_configs >>
    /\ UNCHANGED << app, session_task, stream, listing, wrapper >>
    /\ UNCHANGED << mvars, svars >>

\* asyncio.sleep(300) is over
IdleWake ==
    /\ LoopRuns /\ idle_task.pc = "sleep" /\ ~idle_task.cancel
    /\ idle_task' = [idle_task EXCEPT !.pc = "run"]
    /\ UNCHANGED << app, session_task, stream, listing, wrapper >>
    /\ UNCHANGED << mvars, svars, avars >>

\* the cancellation reaches the idle-agent task where it is suspended:
\* CancelledError is raised there. Inside the `try` the handler is asked;
\* what it catches is logged and the loop goes on to its sleep. Otherwise
\* the task ends, cancelled.
IdleCancelled ==
    /\ LoopRuns /\ idle_task.cancel
    /\ idle_task.pc \in {"run", "lock_wait", "sleep"}
    /\ idle_task' =
          IF idle_in_try(idle_task.pc) /\ caught_by_handler("CancelledError")
          THEN [idle_task EXCEPT !.cancel = FALSE, !.pc = idle_after("raised"),
                                 !.last = "raised", !.hit = idle_task.pc]
          ELSE [idle_task EXCEPT !.cancel = FALSE, !.pc = "cancelled",
                                 !.hit = idle_task.pc]
    /\ UNCHANGED << app, session_task, stream, listing, wrapper >>
    /\ UNCHANGED << mvars, svars, avars >>

\* `await cleanup_task` is over, the task being done: the CancelledError it
\* raises is passed over and db_manager.disconnect() is awaited; another
\* exception would leave lifespan
LifespanEnds ==
    /\ app = "closing"
    /\ idle_task.pc \in {"cancelled", "ended"}
    /\ app' = IF idle_task.pc = "ended" \/ lifespan_swallows("CancelledError")
              THEN "closed" ELSE "failed"
    /\ UNCHANGED << idle_task, session_task, stream, listing, wrapper >>
    /\ UNCHANGED << mvars, svars, avars >>

\* start_session_cleanup(): asyncio.create_task(cleanup_expired_sessions());
\* the round begins with asyncio.sleep(60)
StartSessionCleanup ==
    /\ app = "up" /\ session_task.pc = "none"
    /\ session_task' = [NoTask EXCEPT !.pc = "sleep"]
    /\ UNCHANGED << app, idle_task, stream, listing, wrapper >>
    /\ UNCHANGED << mvars, svars, avars >>

\* asyncio.sleep(60) is over
SessionWake ==
    /\ LoopRuns /\ session_task.pc = "sleep"
    /\ session_task' = [session_task EXCEPT !.pc = "run"]
    /\ UNCHANGED << app, idle_task, stream, listing, wrapper >>
    /\ UNCHANGED << mvars, svars, avars >>

\* one sweep of the expired-session task:
\* session_manager.cleanup_expired_sessions() closes the expired sessions, or
\* raises; then the handler and the next round
SessionSweep(outcome) ==
    /\ LoopRuns /\ session_task.pc = "run"
    /\ IF outcome = "ok"
       THEN LET c == cleanup_expired_sessions(SessionMaps, now)
            IN SetSessionVars(c.ss, [NoCall EXCEPT !.op = "cleanup", !.ret = TRUE,
                                                   !.count = c.count])
       ELSE UNCHANGED << sessions, session_expiry, expiry_time, session_data,
                         now, closed_ids, lastCall >>
    /\ session_task' = [session_task EXCEPT !.pc = session_after(outcome),
                                            !.last = outcome, !.n = 1 - @]
    /\ UNCHANGED << next_uuid, next_wrapper >>
    /\ UNCHANGED << app, idle_task, stream, listing, wrapper >>
    /\ UNCHANGED << mvars, avars >>

\* a round of the idle-agent task: a sweep and the sleep after it
IdleRound ==
    \/ \E o \in SweepOutcomes : \E R \in SUBSET DOMAIN am_agents : IdleSweep(o, R)
    \/ IdleWake

\* the steps of the idle-agent task
IdleTask ==
    \/ IdleWaits
    \/ IdleRound
    \/ IdleCancelled

\* the steps of the expired-session task
SessionTask ==
    \/ SessionWake
    \/ \E o \in SweepOutcomes : SessionSweep(o)

\* a request for the agent of assistant 1 arrives while the event loop runs.
\* asyncio.Lock wakes its waiters in order, so a request does not overtake
\* the idle-agent task that waits for AgentManager's lock: it is taken up
\* when the task has had the lock.
Request(p) ==
    /\ LoopRuns /\ idle_task.pc # "lock_wait"
    /\ \E a \in LiveAssistants : GetForAssistantCall(p, a)
    /\ Fits'

\* the event loop resumes the request of caller p
Serve(p) ==
    /\ LoopRuns
    /\ \/ \E b \in BOOLEAN : AmResume(p, GoodOutcome, b)
       \/ \E b \in BOOLEAN :
             \E d \in LiveAnswers(p) : ResumeAny(p, d, GoodOutcome, TRUE, b)
    /\ Fits'

\* the application from startup to shutdown, both tasks as the functions
\* that create them were called, and one caller asking for agents
NextApp ==
    \/ Startup
    \/ Shutdown
    \/ IdleTask
    \/ LifespanEnds
    \/ StartSessionCleanup
    \/ SessionTask
    \/ Request("c1")
    \/ Serve("c1")

\* the event loop runs every task that can run, and the store answers
TaskFairness ==
    /\ WF_vars(IdleTask)
    /\ WF_vars(SessionTask)
    /\ WF_vars(LifespanEnds)
    /\ WF_vars(Serve("c1"))

SpecApp == InitBound /\ [][NextApp]_vars /\ TaskFairness

\* C29: a sweep that raises does not end its loop. Provided the event loop
\* runs the tasks that can run: after a sweep of the idle-agent task has
\* raised, the task sweeps again unless it is cancelled first; after a sweep
\* of the expired-session task has raised, the task sweeps again unless the
\* application is closed first.
C29_LoopSurvivesFailure ==
    \A b \in {0, 1} :
       /\ (idle_task.last = "raised" /\ idle_task.n = b)
             ~> (idle_task.n # b \/ idle_task.pc = "cancelled")
       /\ (session_task.last = "raised" /\ session_task.n = b)
             ~> (session_task.n # b \/ ~LoopRuns)

\* the last sweep of each task has raised and each task is about to sweep
\* again
C29_Witness ==
    /\ app = "up"
    /\ idle_task.last = "raised" /\ idle_task.pc = "run"
    /\ session_task.last = "raised" /\ session_task.pc = "run"

\* C30: on shutdown the cancelled idle-agent task ends, cancelled, without
\* another sweep, lifespan's wait for it ends without an exception, and the
\* shutdown completes.
C30_ShutdownCompletes ==
    /\ (app = "closing") ~> (app = "closed" /\ idle_task.pc = "cancelled")
    /\ [][app = "closing" => idle_task'.n = idle_task.n /\ app' # "failed"]_vars

\* the shutdown is complete, the cancellation having reached the task while
\* it waited for the lock, inside its `try`
C30_Witness ==
    app = "closed" /\ idle_task.pc = "cancelled" /\ idle_task.hit = "lock_wait"

\* every id a session can have
AllSids == {Sid("given", 1)} \cup {Sid("uuid", n) : n \in 1..MaxCreated}

\* the application as main.py wires it, while it is up: lifespan creates the
\* idle-agent task and no other; sessions are created and the clock advances.
\* No agent is asked for, so the idle-agent task never waits for the lock.
NextWired ==
    \/ Startup
    \/ IdleRound
    \/ Tick
    \/ \E sid \in GivenIds \cup {NoSid}, a \in Assistants : CreateSession(sid, a)

\* the event loop runs every task that can run
WiredFairness == WF_vars(IdleRound) /\ WF_vars(SessionTask)

SpecWired == InitAnyExpiry /\ [][NextWired]_vars /\ WiredFairness

\* session sid is in the registry and past its idle timeout
Expired(sid) == sid \in DOMAIN sessions /\ now > session_expiry[sid]

\* C27: once the application has started, every session that is past its
\* idle timeout is eventually removed from the session registry without a
\* close call (or is no longer that session: it was used or made anew).
C27_ExpiredSessionsSwept ==
    \A sid \in AllSids : (app = "up" /\ Expired(sid)) ~> ~Expired(sid)


\* C31: in every state of the connector manager, is_active(id) implies
\* is_running(id): the active-flag map holds no true entry for an id that
\* has no registered client.
C31_ActiveImpliesRunning ==
    \A t \in ToolIds : is_active(MapsNow, t) => is_running(MapsNow, t)

\* C32: in every state between operations and at every suspension point the
\* client registry, the client-info map and the tool-list cache have the
\* same keys; so get_tools_from_client of a running id calls neither
\* __enter__ nor list_tools_sync, whatever the provider would do.
C32_SameKeys ==
    /\ DOMAIN clients = DOMAIN client_info
    /\ DOMAIN clients = DOMAIN tools_cache
    /\ \A t \in ToolIds, o \in Outcomes :
          is_running(MapsNow, t) =>
             get_tools_from_client(MapsNow, t, o).calls = << >>

\* a provider is running, started by the other caller, while a caller is
\* suspended at the store query
C32_Witness ==
    /\ \E p \in Procs : pc[p] = "query"
    /\ clients # EmptyDict
    /\ lastOp.op = "start" /\ lastOp.ret

\* the tool ids of the providers whose tools an agent holds
ProvidersOf(agent) == {c.tool_id : c \in ClientsOf(agent)}

\* C33 as stated: with one caller, for every key in the agent cache every
\* tool id that is a component of the key is running.
C33_KeyComponentsRunning ==
    \A k \in DOMAIN agents_cache : \A t \in ToolIds :
        key_has_tool(k, t) => is_running(MapsNow, t)

\* C33 amended: with one caller, for every key in the agent cache every tool
\* id that is a component of the key and whose tools the cached agent holds
\* is running (and the agent holds tools of components of its key only).
C33_HeldComponentsRunning ==
    \A k \in DOMAIN agents_cache :
        /\ \A t \in ProvidersOf(agents_cache[k]) : key_has_tool(k, t)
        /\ \A t \in ToolIds :
              (key_has_tool(k, t) /\ t \in ProvidersOf(agents_cache[k]))
                 => is_running(MapsNow, t)

\* an agent is cached under the key of two tool ids of which one is running
\* and gave the agent its tools and the other is not running
C33_Witness ==
    \E k \in DOMAIN agents_cache : \E t, u \in ToolIds :
        /\ key_has_tool(k, t) /\ key_has_tool(k, u)
        /\ t \in ProvidersOf(agents_cache[k]) /\ is_running(MapsNow, t)
        /\ ~is_running(MapsNow, u)

\* ------------------------------------------------- builds and stops race
\* caller c1 asks for the agent of the tools 1 and 10 while caller c2 starts,
\* stops and restarts provider 1
RaceList == << 1, 10 >>

NextRace ==
    \/ \E o \in Outcomes, b \in BOOLEAN : GetAgentCall("c1", RaceList, o, b)
    \/ \E o \in Outcomes, x \in BOOLEAN, b \in BOOLEAN :
          \E d \in QueryAnswers("c1") : Resume("c1", d, o, x, b)
    \/ \E o \in Outcomes : \E c \in Descriptors(1) : StartCall("c2", c, o)
    \/ \E x \in ExitOutcomes(1) : StopCall("c2", 1, x)
    \/ \E o \in Outcomes : \E c \in Descriptors(1), x \in ExitOutcomes(1) :
          RestartCall("c2", c, o, x)

SpecRace == Init /\ [][NextRace]_vars

\* C34: however get_agent_for_tools is interleaved with stop_mcp_server and
\* restart_mcp_server, every external tool of an agent in the agent cache
\* comes from the client that is registered for its tool id now.
C34_CachedToolsOfRegisteredClients ==
    \A k \in DOMAIN agents_cache : \A c \in ClientsOf(agents_cache[k]) :
        /\ c.tool_id \in DOMAIN clients
        /\ clients[c.tool_id] = c

\* ------------------------------------------------ clearing all sessions
\* clear_all_sessions: close_session for each id of list(self.sessions.keys())
RECURSIVE close_each(_, _)
close_each(ss, ids) ==
    IF ids = {} THEN ss
    ELSE LET sid == CHOOSE x \in ids : TRUE
         IN close_each(close_session(ss, sid).ss, ids \ {sid})

clear_all_sessions(ss) ==
    [count |-> Cardinality(DOMAIN ss.sessions),
     ss |-> close_each(ss, DOMAIN ss.sessions)]

ClearAllSessions ==
    /\ LET c == clear_all_sessions(SessionMaps)
       IN SetSessions(c.ss, [NoCall EXCEPT !.op = "clear_all", !.ret = TRUE,
                                            !.count = c.count])
    /\ UNCHANGED << next_uuid, next_wrapper >>

\* the calls of the methods of SessionManager, clear_all_sessions among them
NextRegistry ==
    \/ NextSessions
    \/ ClearAllSessions

SpecRegistry == InitAnyExpiry /\ [][NextRegistry]_vars

\* C35: in every state of SessionManager the session map and the
\* session-expiry map have the same keys, whatever the sequence of
\* create_session, get_session, close_session, cleanup_expired_sessions and
\* clear_all_sessions.
C35_SameSessionKeys == DOMAIN sessions = DOMAIN session_expiry

\* clear_all_sessions has removed two sessions
C35_Witness ==
    /\ lastCall.op = "clear_all" /\ lastCall.count = 2
    /\ sessions = EmptyDict /\ session_expiry = EmptyDict

C38_EachEventAtMostOnce ==
    stream.kind = "session" =>
       \A i, j \in 1..Len(stream.got) : i # j => stream.got[i] # stream.got[j]

\* ------------------------------------------------------ GET /sessions
\* list_sessions iterates agent_manager._session_data.items() and awaits two
\* store queries inside the loop. A dict keeps its insertion order and
\* nothing removes a session, so the entries are those of the uuids 1, 2, ...
\* in this order; all sessions are taken to be of the calling key.

\* the filters of a listing: no assistant_id (0) or one
ListFilters == {0} \cup Assistants

\* The loop from the point where the iterator is advanced to the next
\* suspension or the end. An iterator of a dict whose size is no longer the
\* one it began with raises RuntimeError (dictionary changed size during
\* iteration) when it is advanced; the endpoint has no handler for it.
RECURSIVE list_advance(_, _)
list_advance(l, sd) ==
    IF Cardinality(DOMAIN sd) # l.used
    THEN [l EXCEPT !.pc = "error"]
    ELSE IF l.at = l.used
    THEN [l EXCEPT !.pc = "done"]
    ELSE LET session == sd[Sid("uuid", l.at + 1)]
             passed == [l EXCEPT !.at = @ + 1]
         IN IF l.filter # 0 /\ session.assistant_id # l.filter
            THEN list_advance(passed, sd)
            ELSE [passed EXCEPT !.pc = "access"]

SetListing(l) ==
    /\ listing' = l
    /\ lastCall' = [NoCall EXCEPT !.op = "list"]
    /\ UNCHANGED << sessions, session_expiry, expiry_time, session_data, now,
                    next_uuid, next_wrapper, closed_ids >>
    /\ UNCHANGED << app, idle_task, session_task, stream, wrapper >>
    /\ UNCHANGED << mvars, avars >>

\* a request GET /sessions with filter f begins: up to its first store query
ListBegin(f) ==
    /\ listing.pc \in {"none", "done", "error"}
    /\ SetListing(list_advance([NoListing EXCEPT !.filter = f,
                                   !.used = Cardinality(DOMAIN session_data)],
                               session_data))

\* check_key_assistant_access has answered: with access the assistant is
\* queried next, without it the iterator is advanced
ListAccess(has_access) ==
    /\ listing.pc = "access"
    /\ SetListing(IF has_access THEN [listing EXCEPT !.pc = "assistant"]
                  ELSE list_advance(listing, session_data))

\* get_assistant_by_id has answered: the summary is appended and the
\* iterator is advanced
ListAssistant ==
    /\ listing.pc = "assistant"
    /\ SetListing(list_advance([listing EXCEPT !.out =
                                    Append(@, Sid("uuid", listing.at))],
                               session_data))

\* requests that list the sessions while others create sessions and add
\* messages
NextListing ==
    \/ \E f \in ListFilters : ListBegin(f)
    \/ \E b \in BOOLEAN : ListAccess(b)
    \/ ListAssistant
    \/ \E a \in Assistants : AgentCreateSession(a)
    \/ \E sid \in GivenIds, m \in Messages : AddMessage(sid, m[1], m[2])

SpecListing == Init /\ [][NextListing]_vars

\* C37: the listing of /sessions changes no session state and completes
\* without an error, also when another request creates a session while the
\* listing is suspended at one of its store queries.
C37_ListingSafe ==
    /\ [][listing' # listing => session_data' = session_data]_vars
    /\ [](listing.pc # "error")

\* ------------------------------------- the session registry of AgentManager
\* agent_manager.get_session(session_id)
AgentGetSession(sid) ==
    /\ LET g == agent_get_session(session_data, sid, now)
       IN SetSessionData(g.sd, [NoCall EXCEPT !.op = "agent_get", !.sid = sid,
                                              !.ret = g.found])
    /\ UNCHANGED next_uuid

\* agent_manager.get_session_messages(session_id): get_session, then the
\* messages of the session, or [] when there is none
GetSessionMessages(sid) ==
    /\ LET g == agent_get_session(session_data, sid, now)
       IN SetSessionData(g.sd,
             [NoCall EXCEPT !.op = "messages", !.sid = sid, !.ret = g.found,
                            !.count = IF g.found
                                      THEN Len(g.sd[sid].messages) ELSE 0])
    /\ UNCHANGED next_uuid

\* the session methods of AgentManager in any order, while the idle-agent
\* task of the started application sweeps; none of them decides anything
\* about _session_data by the clock
NextAgentSessions ==
    \/ Startup
    \/ IdleRound
    \/ \E a \in Assistants : AgentCreateSession(a)
    \/ \E sid \in GivenIds : AgentGetSession(sid)
    \/ \E sid \in GivenIds, m \in Messages : AddMessage(sid, m[1], m[2])
    \/ \E sid \in GivenIds : GetSessionMessages(sid)

SpecAgentSessions == Init /\ [][NextAgentSessions]_vars

\* C40: no operation of AgentManager removes a session from _session_data:
\* across create_session, get_session, add_message_to_session,
\* get_session_messages and cleanup_idle_agents the set of session ids never
\* loses an id.
C40_SessionsNeverRemoved ==
    [][DOMAIN session_data \subseteq DOMAIN session_data']_vars

\* two sessions exist, one of them with messages, the idle-agent task has
\* swept and the messages of a session were read after that
C40_Witness ==
    /\ Cardinality(DOMAIN session_data) = 2
    /\ \E sid \in DOMAIN session_data : session_data[sid].messages # << >>
    /\ idle_task.last = "ok"
    /\ lastCall.op = "messages" /\ lastCall.ret

\* ------------------------------------------------ MCPAgentWrapper lifecycle
\* _cleanup_contexts without the __exit__ calls
cleanup_flags_only(w, raising) ==
    [w EXCEPT !.active_contexts = << >>, !.is_initialized = FALSE]

\* the loop of _cleanup_contexts from position k of active_contexts down:
\* __exit__ of each client, an exception of it logged and swallowed
RECURSIVE exit_each(_, _, _)
exit_each(w, k, raising) ==
    IF k = 0 THEN w
    ELSE LET client == w.active_contexts[k]
         IN exit_each([w EXCEPT !.open[client] = @ - 1,
                                !.log = Append(@, << "exit", client >>),
                                !.errors = IF client \in raising
                                           THEN @ + 1 ELSE @],
                      k - 1, raising)

\* MCPAgentWrapper._cleanup_contexts; raising: the clients whose __exit__
\* raises
cleanup_contexts(w, raising) ==
    [exit_each(w, Len(w.active_contexts), raising)
        EXCEPT !.active_contexts = << >>, !.is_initialized = FALSE]

\* the loop of initialize from position k of clients on; fail: the position
\* of the client whose __enter__ raises
RECURSIVE enter_each(_, _, _, _)
enter_each(w, k, fail, raising) ==
    IF k > Len(w.clients) THEN w
    ELSE LET client == w.clients[k]
         IN IF k = fail
            THEN [cleanup_contexts(
                      [w EXCEPT !.log = Append(@, << "enter_raised", client >>),
                                !.errors = @ + 1], raising)
                     EXCEPT !.ret = "false"]
            ELSE enter_each(
                     [w EXCEPT !.open[client] = @ + 1,
                               !.active_contexts = Append(@, client),
                               !.log = Append(@, << "enter", client >>)],
                     k + 1, fail, raising)

\* MCPAgentWrapper.initialize; fail = Len(clients) + 1: Agent(tools=...)
\* raises, 0: nothing raises
initialize(w, fail, raising) ==
    LET call == [w EXCEPT !.op = "initialize", !.was = w.is_initialized,
                          !.log = << >>, !.errors = 0, !.ret = "none"]
    IN IF w.is_initialized THEN [call EXCEPT !.ret = "true"]
       ELSE LET looped == enter_each([call EXCEPT !.active_contexts = << >>],
                                      1, fail, raising)
            IN IF looped.ret = "false" THEN looped
               ELSE IF fail = Len(w.clients) + 1
               THEN [cleanup_contexts([looped EXCEPT !.errors = @ + 1],
                                      raising) EXCEPT !.ret = "false"]
               ELSE [looped EXCEPT !.agent = TRUE, !.is_initialized = TRUE,
                                    !.ret = "true"]

\* MCPAgentWrapper.close
close(w, raising) ==
    LET call == [w EXCEPT !.op = "close", !.was = w.is_initialized,
                          !.log = << >>, !.errors = 0, !.ret = "none"]
    IN IF w.is_initialized THEN cleanup_contexts(call, raising) ELSE call

SetWrapper(w) ==
    /\ wrapper' = w
    /\ UNCHANGED << app, idle_task, session_task, stream, listing >>
    /\ UNCHANGED << mvars, svars, avars >>

\* the client lists a wrapper is made with: up to MaxObjects clients, each
\* of them once
ClientLists ==
    {cl \in UNION {[1..n -> 1..MaxObjects] : n \in 0..MaxObjects} :
        \A i, j \in 1..Len(cl) : i # j => cl[i] # cl[j]}

\* the clients of a wrapper
ClientsIn(w) == Range(w.clients)

\* MCPAgentWrapper(clients, tools)
NewWrapper(cl) ==
    /\ ~wrapper.made
    /\ SetWrapper([NoWrapper EXCEPT
                      !.made = TRUE, !.op = "new", !.clients = cl,
                      !.open = [c \in Range(cl) |-> 0]])

Initialize(fail, raising) ==
    /\ wrapper.made
    /\ SetWrapper(initialize(wrapper, fail, raising))

Close(raising) ==
    /\ wrapper.made
    /\ SetWrapper(close(wrapper, raising))

\* one wrapper with up to MaxObjects clients, initialize and close called on
\* it in any order, any __enter__, Agent(...) or __exit__ raising
NextWrapper ==
    \/ \E cl \in ClientLists : NewWrapper(cl)
    \/ \E fail \in 0..(Len(wrapper.clients) + 1) :
          \E raising \in SUBSET ClientsIn(wrapper) :
             Initialize(fail, raising)
    \/ \E raising \in SUBSET ClientsIn(wrapper) : Close(raising)

SpecWrapper == Init /\ [][NextWrapper]_vars

\* the __enter__ calls of the first k clients in order, and the __exit__
\* calls of the same clients in reverse order
Enters(k) == [i \in 1..k |-> << "enter", wrapper.clients[i] >>]
Exits(k) == [i \in 1..k |-> << "exit", wrapper.clients[k + 1 - i] >>]

\* C39: initialize is all-or-nothing and idempotent. When a client's
\* __enter__ fails, the contexts entered before it are exited in reverse
\* order, each once, active_contexts is empty and is_initialized is false;
\* when it succeeds every client was entered once and is_initialized is
\* true; called on an initialized wrapper it returns true and enters
\* nothing; close exits each entered context once.
C39_AllOrNothing ==
    wrapper.made =>
      LET n == Len(wrapper.clients)
      IN /\ \A c \in ClientsIn(wrapper) :
               wrapper.open[c] = IF wrapper.is_initialized THEN 1 ELSE 0
         /\ wrapper.active_contexts =
               IF wrapper.is_initialized THEN wrapper.clients ELSE << >>
         /\ (wrapper.op = "initialize" /\ wrapper.ret = "false") =>
               /\ ~wrapper.is_initialized
               /\ \E k \in 0..n :
                     wrapper.log =
                        Enters(k)
                        \o (IF k < n
                            THEN << << "enter_raised", wrapper.clients[k + 1] >> >>
                            ELSE << >>)
                        \o Exits(k)
         /\ (wrapper.op = "initialize" /\ wrapper.ret = "true") =>
               /\ wrapper.is_initialized
               /\ wrapper.log = IF wrapper.was THEN << >> ELSE Enters(n)
         /\ wrapper.op = "initialize" => wrapper.ret # "none"
         /\ wrapper.op = "close" =>
               /\ ~wrapper.is_initialized
               /\ wrapper.log = IF wrapper.was THEN Exits(n) ELSE << >>

\* initialize failed at its third client after entering two, and an
\* __exit__ of the clean-up raised as well
C39_Witness ==
    /\ wrapper.op = "initialize" /\ wrapper.ret = "false"
    /\ Len(wrapper.clients) = 3
    /\ wrapper.log = Enters(2) \o << << "enter_raised", wrapper.clients[3] >> >>
                                \o Exits(2)
    /\ wrapper.errors = 2
====
